---- MODULE Spec2Model ----
\* Bugwatch Python SDK: the client (event builder, breadcrumb trail, sampling,
\* before_send hook, transport hand-off), the process-wide exception hooks and
\* the unsynchronised access of several threads to one client.
\*
\* Python objects that are mutated in place (dict, list) live in `heap`; a
\* field holding such an object holds its index in `heap`, so that aliasing
\* and copying are distinguishable.
EXTENDS Integers, Sequences, FiniteSets, TLC

\* ---------------------------------------------------------------- bounds
\* largest max_breadcrumbs a run configures
MaxCap == 2
\* sample rates and random draws are multiples of 1/Scale
Scale == 2
\* add_breadcrumb calls in one run
MaxAdds == 3
\* capture_* calls in one run
MaxCaptures == 2
\* clear_breadcrumbs calls in one run
MaxClears == 1
\* registrations of the atexit handler in one run
MaxAtexit == 2
\* uncaught faults reaching sys.excepthook in one run
MaxUncaught == 1
\* log records handled inside one another before the interpreter's recursion
\* limit stops the nesting
MaxNesting == 3
\* log records of the application that lead to a capture or a breadcrumb on
\* one client, and event ids drawn before the application stops logging
MaxLogs == 2

VARIABLES
    options,           \* BugwatchClient.options (BugwatchOptions)
    heap,              \* the dict and list objects, by identity
    _tags,             \* BugwatchClient._tags (a dict object)
    _extra,            \* BugwatchClient._extra (a dict object)
    _breadcrumbs,      \* BugwatchClient._breadcrumbs (a list object)
    sent,              \* the events handed to transport.send, in call order
    next_id,           \* number of event ids drawn from uuid4 so far
    adds,              \* add_breadcrumb calls so far
    adds_since_clear,  \* add_breadcrumb calls since construction / last clear
    clears,            \* clear_breadcrumbs calls so far
    captures,          \* capture_* calls so far
    last,              \* what the most recent client call did
    _client,           \* bugwatch._client: "None" or "BugwatchClient"
    sys_excepthook,    \* sys.excepthook
    threading_excepthook,            \* threading.excepthook
    loop_running,      \* an asyncio event loop is running in the calling context
    loop_handler,      \* that loop's exception handler
    _original_excepthook,            \* bugwatch._original_excepthook
    _original_threading_excepthook,  \* bugwatch._original_threading_excepthook
    _original_asyncio_handler,       \* bugwatch._original_asyncio_handler
    _hooks_installed,  \* bugwatch._hooks_installed
    atexit_handlers,   \* registrations of _atexit_handler with atexit
    hook_pc,           \* position inside a running _bugwatch_excepthook
    hook_call,         \* what the most recent sys.excepthook invocation did
    replaced,          \* the handler sys.excepthook held when Bugwatch's replaced it
    asyncio_requested, \* install_asyncio_hook of the init() that last ran the install block
    uncaught,          \* uncaught faults so far
    pc,                \* per thread: its position inside a client call
    loc,               \* per thread: the locals of that call
    wire,              \* what the most recent transport.send over HTTP did
    fp,                \* the most recent pair of fingerprint calls compared
    handler,           \* the BugwatchHandler attached to the root logger, if any
    log_call           \* what handling the most recent log record has done so far

clientVars == <<options, heap, _tags, _extra, _breadcrumbs, sent, next_id,
                adds, adds_since_clear, clears, captures, last>>

hookVars == <<_client, sys_excepthook, threading_excepthook, loop_running,
              loop_handler, _original_excepthook, _original_threading_excepthook,
              _original_asyncio_handler, _hooks_installed, atexit_handlers,
              hook_pc, hook_call, replaced, asyncio_requested, uncaught>>

threadVars == <<pc, loc>>

transportVars == <<wire>>

fingerprintVars == <<fp>>

loggingVars == <<handler, log_call>>

vars == <<clientVars, hookVars, threadVars, transportVars, fingerprintVars, loggingVars>>

\* ---------------------------------------------------------------- values
\* Optional[T]: None, or the value wrapped.
None == <<>>
Some(v) == <<v>>

\* random.random() < 1.0 always; 1.0 itself is Scale/Scale.
Rates == 0..Scale
Draws == 0..(Scale - 1)

EmptyDict == <<>>
Truthy(d) == DOMAIN d # {}
DictUpdate(d, u) ==
    [k \in (DOMAIN d) \cup (DOMAIN u) |-> IF k \in DOMAIN u THEN u[k] ELSE d[k]]
DictSet(d, k, v) == DictUpdate(d, k :> v)

Max(a, b) == IF a >= b THEN a ELSE b
Min(a, b) == IF a <= b THEN a ELSE b

\* list[:n], the n oldest entries
SliceFirst(list, n) == SubSeq(list, 1, Min(n, Len(list)))

\* list[-n:] for a list and an integer n, as Python slices: -0 is 0, so
\* list[-0:] is list[0:], the whole list.
SliceFromMinus(list, n) ==
    LET i == 0 - n
        start == IF i < 0 THEN Max(Len(list) + i, 0) ELSE Min(i, Len(list))
    IN  SubSeq(list, start + 1, Len(list))

\* d itself in place of a copy
DictAlias(h, ref) == [heap |-> h, ref |-> ref]

\* {**d}: a new dict object with d's items.
DictCopy(h, ref) == [heap |-> Append(h, h[ref]), ref |-> Len(h) + 1]
\* l itself in place of a copy
ListAlias(h, ref) == [heap |-> h, ref |-> ref]
\* list(l): a new list object with l's items.
ListCopy(h, ref) == [heap |-> Append(h, h[ref]), ref |-> Len(h) + 1]

BeforeSendHooks == {"None", "drop", "mutate", "replace", "raise"}

DefaultTags ==
    ("runtime" :> "python") @@ ("runtime.version" :> "3.x") @@
    ("os.platform" :> "linux") @@ ("os.name" :> "Linux")

\* BugwatchClient.__init__: three fresh objects, the default tags set.
NewHeap(opts) ==
    << IF opts.environment # None
         THEN DictSet(DefaultTags, "environment", opts.environment[1])
         ELSE DefaultTags,
       EmptyDict,
       <<>> >>

NoCall == [op |-> "none", result |-> Some(""), trace |-> <<>>,
           hook |-> "not_called", nsend |-> 0, event |-> None,
           tags_before |-> EmptyDict, extra_before |-> EmptyDict,
           sent_before |-> 0, draw |-> 0, level |-> "info",
           flags |-> <<>>, before |-> None, returned |-> None,
           error |-> None, exc_info |-> None, appended |-> None]

Options(caps, rates, hooks) ==
    [api_key : {"test-api-key"}, environment : {None},
     max_breadcrumbs : caps, sample_rate : rates,
     before_send : hooks, capture_locals : {FALSE}]

\* No fault has reached sys.excepthook yet.
NoHookCall == [via |-> "None", fault |-> None, client |-> "None",
               previous |-> "None", capture_calls |-> 0, chained |-> <<>>,
               requested |-> FALSE, origin |-> None]

\* The process before bugwatch.init(): the module globals as the module sets
\* them, the interpreter's own handlers in place.
InitProcess(running) ==
    /\ _client = "None"
    /\ sys_excepthook = "sys.__excepthook__"
    /\ threading_excepthook = "threading.__excepthook__"
    /\ loop_running \in running
    /\ loop_handler = "None"
    /\ _original_excepthook = "None"
    /\ _original_threading_excepthook = "None"
    /\ _original_asyncio_handler = "None"
    /\ _hooks_installed = FALSE
    /\ atexit_handlers = 0
    /\ hook_pc = "idle"
    /\ hook_call = NoHookCall
    /\ replaced = "None"
    /\ asyncio_requested = FALSE
    /\ uncaught = 0

\* No HTTP transport has been asked to send yet.
NoWire ==
    [transport |-> "None", outcome |-> None, returned |-> None, completed |-> FALSE,
     path |-> <<"Idle">>, requests |-> 0]

\* No fingerprint has been computed yet.
NoFingerprint == [op |-> "none", a |-> None, b |-> None, fa |-> None, fb |-> None]

\* No log record has been handled yet. `stack` holds the records being
\* handled, innermost last: logging a record inside emit() nests.
NoLogCall == [stack |-> <<>>, levelno |-> 0, exc_info |-> FALSE, emitted |-> 0,
              capture_exception |-> 0, capture_message |-> 0, add_breadcrumb |-> 0,
              sends |-> 0, recursion_errors |-> 0]

Threads == {"t1", "t2"}
NoLocals == [crumb |-> None, list |-> 0, tail |-> <<>>]

\* BugwatchClient(options) with a transport that records what it is handed
InitClient(opts) ==
    /\ InitProcess({FALSE})
    /\ pc = [t \in Threads |-> "idle"]
    /\ loc = [t \in Threads |-> NoLocals]
    /\ options \in opts
    /\ heap = NewHeap(options)
    /\ _tags = 1
    /\ _extra = 2
    /\ _breadcrumbs = 3
    /\ sent = <<>>
    /\ next_id = 0
    /\ adds = 0
    /\ adds_since_clear = 0
    /\ clears = 0
    /\ captures = 0
    /\ last = NoCall
    /\ wire = NoWire
    /\ fp = NoFingerprint
    /\ handler = None
    /\ log_call = NoLogCall

\* The capture pipeline: every sample rate and hook, the default capacity
\* scaled down to MaxCap.
Init == InitClient(Options({MaxCap}, Rates, BeforeSendHooks))

\* The breadcrumb trail: every capacity, no sampling and no hook.
InitTrail == InitClient(Options(0..MaxCap, {Scale}, {"None"}))

\* ------------------------------------------------------------ breadcrumbs
Breadcrumb(category, message) ==
    [category |-> category, message |-> message, type |-> "default",
     level |-> "info"]

\* The breadcrumb put in front of the trail instead of at its end.
PrependBreadcrumb(h, ref, crumb) ==
    LET h1 == [h EXCEPT ![ref] = <<crumb>> \o @]
    IN  IF Len(h1[ref]) > options.max_breadcrumbs
          THEN [heap |-> Append(h1, SliceFromMinus(h1[ref], options.max_breadcrumbs)),
                ref  |-> Len(h1) + 1]
          ELSE [heap |-> h1, ref |-> ref]

\* BugwatchClient.add_breadcrumb on heap h with the trail at `ref`:
\* append in place, then replace the trail by its tail when it is too long.
add_breadcrumb(h, ref, crumb) ==
    LET h1 == [h EXCEPT ![ref] = Append(@, crumb)]
    IN  IF Len(h1[ref]) > options.max_breadcrumbs
          THEN [heap |-> Append(h1, SliceFromMinus(h1[ref], options.max_breadcrumbs)),
                ref  |-> Len(h1) + 1]
          ELSE [heap |-> h1, ref |-> ref]

AddBreadcrumb ==
    /\ adds < MaxAdds
    /\ LET r == add_breadcrumb(heap, _breadcrumbs, Breadcrumb("test", adds + 1))
       IN  /\ heap' = r.heap
           /\ _breadcrumbs' = r.ref
    /\ adds' = adds + 1
    /\ adds_since_clear' = adds_since_clear + 1
    /\ last' = [NoCall EXCEPT !.op = "add_breadcrumb"]
    /\ UNCHANGED <<options, _tags, _extra, sent, next_id, clears, captures>>
    /\ UNCHANGED <<hookVars, threadVars, transportVars, fingerprintVars, loggingVars>>

\* BugwatchClient.clear_breadcrumbs: self._breadcrumbs = []
ClearBreadcrumbs ==
    /\ clears < MaxClears
    /\ heap' = Append(heap, <<>>)
    /\ _breadcrumbs' = Len(heap) + 1
    /\ clears' = clears + 1
    /\ adds_since_clear' = 0
    /\ last' = [NoCall EXCEPT !.op = "clear_breadcrumbs"]
    /\ UNCHANGED <<options, _tags, _extra, sent, next_id, adds, captures>>
    /\ UNCHANGED <<hookVars, threadVars, transportVars, fingerprintVars, loggingVars>>

\* BugwatchClient.set_tag / set_extra: upsert one key of the instance map.
SetTag ==
    /\ \E key \in {"k"}, value \in {"client"} :
          heap' = [heap EXCEPT ![_tags] = DictSet(@, key, value)]
    /\ last' = [NoCall EXCEPT !.op = "set_tag"]
    /\ UNCHANGED <<options, _tags, _extra, _breadcrumbs, sent, next_id,
                   adds, adds_since_clear, clears, captures>>
    /\ UNCHANGED <<hookVars, threadVars, transportVars, fingerprintVars, loggingVars>>

SetExtra ==
    /\ \E key \in {"k"}, value \in {"client"} :
          heap' = [heap EXCEPT ![_extra] = DictSet(@, key, value)]
    /\ last' = [NoCall EXCEPT !.op = "set_extra"]
    /\ UNCHANGED <<options, _tags, _extra, _breadcrumbs, sent, next_id,
                   adds, adds_since_clear, clears, captures>>
    /\ UNCHANGED <<hookVars, threadVars, transportVars, fingerprintVars, loggingVars>>

\* ------------------------------------------------------------ extraction
\* A file name is its path components; sys.prefix and sys.base_prefix are /usr.
sys_prefix == <<"usr">>
StartsWith(path, prefix) ==
    /\ Len(path) >= Len(prefix)
    /\ SubSeq(path, 1, Len(prefix)) = prefix
Contains(path, part) == \E i \in 1..Len(path) : path[i] = part

\* BugwatchClient._is_in_app
_is_in_app(filename) ==
    IF Contains(filename, "site-packages") THEN FALSE
    ELSE IF Len(filename) > 0 /\ filename[1] \in {"<string>", "<frozen>"} THEN FALSE
    ELSE IF StartsWith(filename, sys_prefix) /\ ~Contains(filename, "site-packages")
      THEN FALSE
    ELSE TRUE

RECURSIVE Join(_, _)
Join(parts, sep) ==
    IF Len(parts) = 0 THEN ""
    ELSE IF Len(parts) = 1 THEN parts[1]
    ELSE parts[1] \o sep \o Join(Tail(parts), sep)

PathStr(filename) == Join(filename, "/")

\* BugwatchClient._extract_locals for locals whose values are primitives
\* (_serialize_value returns a primitive unchanged): private names and the
\* framework names are skipped; an empty result is None.
PrivateNames == {"_tmp", "__name__"}
SkipNames == {"self", "cls", "request", "response", "environ"}
_extract_locals(f_locals) ==
    LET keep == {n \in DOMAIN f_locals : n \notin PrivateNames /\ n \notin SkipNames}
    IN  IF keep = {} THEN None ELSE Some([n \in keep |-> f_locals[n]])

\* a StackFrame given the locals of every frame when capture_locals is on
LocalsOfEveryFrame(frame) ==
    LET in_app == _is_in_app(frame.filename)
    IN  [filename |-> PathStr(frame.filename), function |-> frame.function,
         lineno |-> frame.lineno, colno |-> 0, in_app |-> in_app,
         vars |-> IF options.capture_locals
                    THEN _extract_locals(frame.f_locals) ELSE None]

\* the StackFrame that _extract_exception builds for one traceback entry
StackFrameOf(frame) ==
    LET in_app == _is_in_app(frame.filename)
    IN  [filename |-> PathStr(frame.filename), function |-> frame.function,
         lineno |-> frame.lineno, colno |-> 0, in_app |-> in_app,
         vars |-> IF options.capture_locals /\ in_app
                    THEN _extract_locals(frame.f_locals) ELSE None]

\* BugwatchClient._extract_exception; str(error) is the fault's own __str__
\* and raises when the fault's str_raises is set (the caller checks that).
_extract_exception(error) ==
    [type |-> error.type, value |-> error.value,
     stacktrace |-> [i \in 1..Len(error.tb) |-> StackFrameOf(error.tb[i])]]

AppFrame == [filename |-> <<"app", "views.py">>, function |-> "view",
             lineno |-> 7, f_locals |-> EmptyDict]
LibFrame == [filename |-> <<"usr", "lib", "site-packages", "lib.py">>,
             function |-> "call", lineno |-> 3, f_locals |-> EmptyDict]

Faults ==
    { [type |-> "IndexError", value |-> "list index 5 out of range",
       str_raises |-> FALSE, tb |-> <<LibFrame, AppFrame>>],
      [type |-> "BadStr", value |-> "", str_raises |-> TRUE, tb |-> <<>>] }

\* ----------------------------------------------------------- fingerprint
\* A str is modelled by the sequence of its characters where the regular
\* expressions look into it.
Digits == {"0", "1", "2", "3", "4", "5", "6", "7", "8", "9"}
HexChars == Digits \cup {"a", "b", "c", "d", "e", "f", "A", "B", "C", "D", "E", "F"}
Letters ==
    {"a", "b", "c", "d", "e", "f", "g", "h", "i", "j", "k", "l", "m", "n", "o", "p",
     "q", "r", "s", "t", "u", "v", "w", "x", "y", "z", "A", "B", "C", "D", "E", "F",
     "G", "H", "I", "J", "K", "L", "M", "N", "O", "P", "Q", "R", "S", "T", "U", "V",
     "W", "X", "Y", "Z"}
\* \w
WordChars == Letters \cup Digits \cup {"_"}
\* [\w\-./] and [\w\-.\\ ]
PathChars == WordChars \cup {"-", ".", "/"}
WinPathChars == WordChars \cup {"-", ".", "\\", " "}

\* Length of the longest run of characters of `class` that starts at s[i]
RunLen(s, i, class) ==
    IF i > Len(s) THEN 0
    ELSE LET stops == {k \in i..(Len(s) + 1) : k = Len(s) + 1 \/ s[k] \notin class}
         IN  (CHOOSE k \in stops : \A j \in stops : k <= j) - i

AllIn(s, from, n, class) == \A k \in from..(from + n - 1) : s[k] \in class
At(s, i, c) == i <= Len(s) /\ s[i] = c

\* 0x[0-9a-fA-F]+ at s[i]: the length matched, 0 for no match
MatchHex(s, i) ==
    IF At(s, i, "0") /\ At(s, i + 1, "x") /\ RunLen(s, i + 2, HexChars) > 0
      THEN 2 + RunLen(s, i + 2, HexChars) ELSE 0

\* The length re.match finds for each pattern of _normalize_message at
\* s[i], 0 for no match; every quantifier in them is greedy and none needs
\* backtracking.
MatchLen(rule, s, i) ==
    CASE rule = "uuid" ->
            IF /\ i + 35 <= Len(s)
               /\ AllIn(s, i, 8, HexChars) /\ s[i + 8] = "-"
               /\ AllIn(s, i + 9, 4, HexChars) /\ s[i + 13] = "-"
               /\ AllIn(s, i + 14, 4, HexChars) /\ s[i + 18] = "-"
               /\ AllIn(s, i + 19, 4, HexChars) /\ s[i + 23] = "-"
               /\ AllIn(s, i + 24, 12, HexChars)
              THEN 36 ELSE 0
      [] rule = "hex" -> MatchHex(s, i)
      [] rule = "address" ->
            IF At(s, i, "a") /\ At(s, i + 1, "t") /\ At(s, i + 2, " ")
                 /\ MatchHex(s, i + 3) > 0
              THEN 3 + MatchHex(s, i + 3) ELSE 0
      [] rule = "path" ->
            IF At(s, i, "/") /\ RunLen(s, i + 1, PathChars) > 0
              THEN 1 + RunLen(s, i + 1, PathChars) ELSE 0
      [] rule = "winpath" ->
            IF At(s, i, "\\") /\ RunLen(s, i + 1, WinPathChars) > 0
              THEN 1 + RunLen(s, i + 1, WinPathChars) ELSE 0
      [] rule \in {"\"", "'"} ->
            IF At(s, i, rule) /\ \E j \in (i + 1)..Len(s) : s[j] = rule
              THEN (CHOOSE j \in (i + 1)..Len(s) :
                        /\ s[j] = rule
                        /\ \A k \in (i + 1)..(j - 1) : s[k] # rule) - i + 1
              ELSE 0
      [] rule = "number" -> RunLen(s, i, Digits)

Replacement(rule) ==
    CASE rule = "uuid" -> <<"<", "u", "u", "i", "d", ">">>
      [] rule = "hex" -> <<"<", "h", "e", "x", ">">>
      [] rule = "address" -> <<"a", "t", " ", "<", "a", "d", "d", "r", "e", "s", "s", ">">>
      [] rule \in {"path", "winpath"} -> <<"<", "p", "a", "t", "h", ">">>
      [] rule \in {"\"", "'"} -> <<"<", "s", "t", "r", "i", "n", "g", ">">>
      [] rule = "number" -> <<"<", "n", "u", "m", "b", "e", "r", ">">>

\* re.sub(pattern, replacement, s) from s[i] on: leftmost matches, not
\* overlapping, the text between them kept.
Sub(rule, s, i) ==
    LET rest[k \in 1..(Len(s) + 1)] ==
            IF k > Len(s) THEN <<>>
            ELSE LET n == MatchLen(rule, s, k)
                 IN  IF n > 0 THEN Replacement(rule) \o rest[k + n]
                     ELSE <<s[k]>> \o rest[k + 1]
    IN  rest[i]

\* The substitutions of _normalize_message in the order of the source:
\* UUIDs, hex values, memory addresses, the two kinds of file path, the two
\* kinds of quoted string, numbers.
Rules == <<"uuid", "hex", "address", "path", "winpath", "\"", "'", "number">>

\* `normalized` of _normalize_message after each substitution in turn, on
\* the characters of the message.
normalized(message) ==
    LET after[n \in 0..Len(Rules)] ==
            IF n = 0 THEN message ELSE Sub(Rules[n], after[n - 1], 1)
    IN  after[Len(Rules)]

\* The characters of the values str(error) gives for the faults modelled.
Chars(value) ==
    CASE value = "list index 5 out of range" ->
            <<"l", "i", "s", "t", " ", "i", "n", "d", "e", "x", " ", "5", " ",
              "o", "u", "t", " ", "o", "f", " ", "r", "a", "n", "g", "e">>
      [] value = "" -> <<>>

\* The normalized messages of those values, computed once.
KnownNormalized ==
    [m \in {Chars(value) : value \in {"list index 5 out of range", ""}} |-> normalized(m)]

\* fingerprint._normalize_message
_normalize_message(message) ==
    IF message \in DOMAIN KnownNormalized
      THEN KnownNormalized[message] ELSE normalized(message)

\* fingerprint.generate_fingerprint on the characters of the message;
\* SHA-256 is taken to be collision free, so the digest is represented by
\* the hashed content.
generate_fingerprint(error_type, message, stacktrace) ==
    LET content == error_type \o ":" \o Join(_normalize_message(message), "")
    IN  IF stacktrace # None /\ stacktrace[1] # ""
          THEN content \o ":" \o stacktrace[1]
          ELSE content

TopFrames == 5

\* fingerprint_from_exception hashing the number of ids drawn so far as well
FingerprintWithCounter(exception) ==
    generate_fingerprint(exception.type \o ToString(next_id), Chars(exception.value), None)

\* fingerprint.fingerprint_from_exception
fingerprint_from_exception(exception) ==
    LET top == SubSeq(exception.stacktrace, 1, Min(TopFrames, Len(exception.stacktrace)))
        app == SelectSeq(top, LAMBDA f : f.in_app)
        stacktrace_parts ==
            [i \in 1..Len(app) |->
                app[i].filename \o ":" \o app[i].function \o ":" \o ToString(app[i].lineno)]
        stacktrace == IF Len(stacktrace_parts) > 0
                        THEN Some(Join(stacktrace_parts, "|")) ELSE None
    IN  generate_fingerprint(exception.type, Chars(exception.value), stacktrace)

\* -------------------------------------------------------------- capture
Outcome(h, s, n, result, trace, hook, nsend, event) ==
    [heap |-> h, sent |-> s, next_id |-> n, result |-> result, trace |-> trace,
     hook |-> hook, nsend |-> nsend, event |-> event, returned |-> None,
     error |-> None, exc_info |-> None]

\* uuid.uuid4().hex: a fresh identifier per call
Uuid(n) == "id" \o ToString(n)

\* BugwatchClient._create_event on heap h; `trail` is the list object read
\* from self._breadcrumbs, n the number of ids drawn before.
_create_event(h, trail, n, level, exception, message, tags, extra) ==
    LET mt == DictCopy(h, _tags)
        h1 == IF Truthy(tags)
                THEN [mt.heap EXCEPT ![mt.ref] = DictUpdate(@, tags)] ELSE mt.heap
        me == DictCopy(h1, _extra)
        h2 == IF Truthy(extra)
                THEN [me.heap EXCEPT ![me.ref] = DictUpdate(@, extra)] ELSE me.heap
        final_message ==
            IF message = None /\ exception # None
              THEN exception[1].type \o ": " \o exception[1].value
            ELSE IF message = None THEN ""
            ELSE message[1]
        bc == ListCopy(h2, trail)
    IN  [heap |-> bc.heap,
         event |-> [event_id |-> Uuid(n + 1), level |-> level,
                    exception |-> exception, message |-> final_message,
                    platform |-> "python", tags |-> mt.ref, extra |-> me.ref,
                    breadcrumbs |-> bc.ref, fingerprint |-> None,
                    environment |-> options.environment]]

\* options.before_send(event) for the hook that edits the event in place
HookMutate(h, event) ==
    [h EXCEPT ![event.tags] = DictSet(DictSet(@, "modified", "true"), "runtime", "hooked"),
              ![event.extra] = DictSet(@, "modified", "true")]

\* options.before_send(event) for the hook that leaves its argument alone and
\* returns an Event of its own, with its own id and its own tag map
HookReplace(h, event) ==
    LET mt == DictCopy(h, event.tags)
    IN  [heap |-> [mt.heap EXCEPT ![mt.ref] = DictSet(@, "modified", "true")],
         event |-> [event EXCEPT !.event_id = "hook-" \o @, !.tags = mt.ref]]

\* self.transport.send(event); return event.event_id. The transport either
\* returns or raises (send_ok false).
SendEvent(h, n, event, trace, hook, send_ok) ==
    Outcome(h, Append(sent, event), n,
            IF send_ok THEN Some(event.event_id) ELSE None,
            Append(trace, "send"), hook, 1, Some(event))

\* The hook's return value ignored: the event is sent whatever it returns.
HookResultIgnored(h, n, event, trace, send_ok) ==
    IF options.before_send = "raise"
      THEN Outcome(h, sent, n, None, Append(trace, "before_send"), "raised", 0, Some(event))
    ELSE IF options.before_send = "drop"
      THEN SendEvent(h, n, event, Append(trace, "before_send"), "returned_none", send_ok)
    ELSE IF options.before_send = "mutate"
      THEN SendEvent(HookMutate(h, event), n, event, Append(trace, "before_send"),
                     "returned_event", send_ok)
    ELSE IF options.before_send = "replace"
      THEN SendEvent(HookReplace(h, event).heap, n, event, Append(trace, "before_send"),
                     "returned_event", send_ok)
    ELSE SendEvent(h, n, event, trace, "not_called", send_ok)

\* The hook called, its return value tested for None but never assigned: the
\* event built by the client is the one sent.
HookReturnDiscarded(h, n, event, trace, send_ok) ==
    IF options.before_send # "None"
      THEN LET t == Append(trace, "before_send")
           IN  CASE options.before_send = "drop" ->
                      Outcome(h, sent, n, Some(""), t, "returned_none", 0, Some(event))
                 [] options.before_send = "raise" ->
                      Outcome(h, sent, n, None, t, "raised", 0, Some(event))
                 [] options.before_send = "replace" ->
                      LET back == HookReplace(h, event)
                      IN  [SendEvent(back.heap, n, event, t, "returned_event", send_ok)
                              EXCEPT !.returned = Some(back.event)]
                 [] OTHER ->
                      [SendEvent(HookMutate(h, event), n, event, t, "returned_event",
                                 send_ok)
                          EXCEPT !.returned = Some(event)]
      ELSE SendEvent(h, n, event, trace, "not_called", send_ok)

\* The tail shared by capture_exception and capture_message: apply the
\* before_send hook, send, return the id.
HookAndSend(h, n, event, trace, send_ok) ==
    IF options.before_send # "None"
      THEN LET t == Append(trace, "before_send")
           IN  CASE options.before_send = "drop" ->
                      Outcome(h, sent, n, Some(""), t, "returned_none", 0, Some(event))
                 [] options.before_send = "raise" ->
                      Outcome(h, sent, n, None, t, "raised", 0, Some(event))
                 [] options.before_send = "replace" ->
                      LET back == HookReplace(h, event)
                      IN  [SendEvent(back.heap, n, back.event, t, "returned_event",
                                     send_ok)
                              EXCEPT !.returned = Some(back.event)]
                 [] OTHER ->
                      [SendEvent(HookMutate(h, event), n, event, t, "returned_event",
                                 send_ok)
                          EXCEPT !.returned = Some(event)]
      ELSE SendEvent(h, n, event, trace, "not_called", send_ok)

\* the sampling test of capture_*: true when the call is rejected
SampledOut(draw) == options.sample_rate < Scale /\ draw > options.sample_rate

\* BugwatchClient.capture_message
capture_message(message, level, tags, extra, draw, send_ok) ==
    LET t0 == IF options.sample_rate < Scale THEN <<"random">> ELSE <<>>
    IN  IF SampledOut(draw)
          THEN Outcome(heap, sent, next_id, Some(""), t0, "not_called", 0, None)
          ELSE LET b == _create_event(heap, _breadcrumbs, next_id, level, None,
                                      Some(message), tags, extra)
               IN  HookAndSend(b.heap, next_id + 1, b.event,
                               Append(t0, "create_event"), send_ok)

\* capture_exception sampling only after the fault has been extracted
SampleAfterExtract(error, level, tags, extra, exc_info, draw, send_ok) ==
    LET t0 == IF error = None THEN <<"exc_info">> ELSE <<>>
        err == IF error = None THEN exc_info ELSE error
        t1 == Append(t0, "extract")
        t2 == IF options.sample_rate < Scale THEN Append(t1, "random") ELSE t1
    IN  IF err = None
          THEN Outcome(heap, sent, next_id, Some(""), t0, "not_called", 0, None)
        ELSE IF err[1].str_raises
          THEN Outcome(heap, sent, next_id, None, t1, "not_called", 0, None)
        ELSE IF SampledOut(draw)
          THEN Outcome(heap, sent, next_id, Some(""), t2, "not_called", 0, None)
        ELSE LET exception_info == _extract_exception(err[1])
                 b == _create_event(heap, _breadcrumbs, next_id, level,
                                    Some(exception_info), None, tags, extra)
                 event == [b.event EXCEPT
                              !.fingerprint = Some(fingerprint_from_exception(exception_info))]
             IN  HookAndSend(b.heap, next_id + 1, event,
                             Append(Append(t2, "create_event"), "fingerprint"), send_ok)

\* capture_exception drawing the sample before it looks for a fault
CaptureSamplesFirst(error, level, tags, extra, exc_info, draw, send_ok) ==
    LET t0 == IF error = None THEN <<"exc_info">> ELSE <<>>
        err == IF error = None THEN exc_info ELSE error
        t1 == IF options.sample_rate < Scale THEN Append(t0, "random") ELSE t0
        call == [error |-> error, exc_info |-> exc_info]
        done == IF err = None \/ SampledOut(draw)
                  THEN Outcome(heap, sent, next_id, Some(""), t1, "not_called", 0, None)
                ELSE IF err[1].str_raises
                  THEN Outcome(heap, sent, next_id, None, Append(t1, "extract"),
                               "not_called", 0, None)
                ELSE LET exception_info == _extract_exception(err[1])
                         b == _create_event(heap, _breadcrumbs, next_id, level,
                                            Some(exception_info), None, tags, extra)
                         event == [b.event EXCEPT
                                      !.fingerprint =
                                          Some(fingerprint_from_exception(exception_info))]
                     IN  HookAndSend(b.heap, next_id + 1, event,
                                     Append(Append(Append(t1, "extract"), "create_event"),
                                            "fingerprint"),
                                     send_ok)
    IN  [done EXCEPT !.error = call.error, !.exc_info = call.exc_info]

\* BugwatchClient.capture_exception; exc_info is the fault being handled in
\* the caller's context (sys.exc_info()), None when there is none. The
\* outcome records the two as the call found them.
capture_exception(error, level, tags, extra, exc_info, draw, send_ok) ==
    LET t0 == IF error = None THEN <<"exc_info">> ELSE <<>>
        err == IF error = None THEN exc_info ELSE error
        t1 == IF options.sample_rate < Scale THEN Append(t0, "random") ELSE t0
        call == [error |-> error, exc_info |-> exc_info]
        done == IF err = None
                  THEN Outcome(heap, sent, next_id, Some(""), t0, "not_called", 0, None)
                ELSE IF SampledOut(draw)
                  THEN Outcome(heap, sent, next_id, Some(""), t1, "not_called", 0, None)
                ELSE IF err[1].str_raises
                  THEN Outcome(heap, sent, next_id, None, Append(t1, "extract"),
                               "not_called", 0, None)
                ELSE LET exception_info == _extract_exception(err[1])
                         b == _create_event(heap, _breadcrumbs, next_id, level,
                                            Some(exception_info), None, tags, extra)
                         event == [b.event EXCEPT
                                      !.fingerprint =
                                          Some(fingerprint_from_exception(exception_info))]
                     IN  HookAndSend(b.heap, next_id + 1, event,
                                     Append(Append(Append(t1, "extract"), "create_event"),
                                            "fingerprint"),
                                     send_ok)
    IN  [done EXCEPT !.error = call.error, !.exc_info = call.exc_info]

Messages == {"", "test"}
CallMaps == {EmptyDict, "k" :> "call"}
\* random.random() is called only when sample_rate < 1.0
DrawsOf(opts) == IF opts.sample_rate < Scale THEN Draws ELSE {0}
\* The error argument and the fault being handled where the call is made;
\* sys.exc_info() is read only when the argument is None.
ErrorArgs(faults) ==
    {[error |-> None, exc_info |-> None]}
        \cup {[error |-> None, exc_info |-> Some(f)] : f \in faults}
        \cup {[error |-> Some(f), exc_info |-> None] : f \in faults}

\* The client state after a capture call with outcome r
Captured(op, level, r, draw) ==
    /\ heap' = r.heap
    /\ sent' = r.sent
    /\ next_id' = r.next_id
    /\ captures' = captures + 1
    /\ last' = [NoCall EXCEPT
                   !.op = op, !.result = r.result, !.trace = r.trace,
                   !.hook = r.hook, !.nsend = r.nsend, !.event = r.event,
                   !.returned = r.returned, !.error = r.error, !.exc_info = r.exc_info,
                   !.appended = last.appended,
                   !.tags_before = heap[_tags], !.extra_before = heap[_extra],
                   !.sent_before = Len(sent), !.draw = draw, !.level = level]
    /\ UNCHANGED <<options, _tags, _extra, _breadcrumbs, adds, adds_since_clear, clears>>

CaptureMessage(messages, maps, send_oks) ==
    /\ captures < MaxCaptures
    /\ \E message \in messages, ctx \in maps, draw \in DrawsOf(options), send_ok \in send_oks :
          Captured("capture_message", "info",
                   capture_message(message, "info", ctx, ctx, draw, send_ok), draw)
    /\ UNCHANGED <<hookVars, threadVars, transportVars, fingerprintVars, loggingVars>>

CaptureException(faults, maps, send_oks) ==
    /\ captures < MaxCaptures
    /\ \E call \in ErrorArgs(faults), ctx \in maps, draw \in DrawsOf(options),
          send_ok \in send_oks :
          Captured("capture_exception", "error",
                   capture_exception(call.error, "error", ctx, ctx, call.exc_info,
                                     draw, send_ok),
                   draw)
    /\ UNCHANGED <<hookVars, threadVars, transportVars, fingerprintVars, loggingVars>>

\* Sequential calls of the capture pipeline on one client.
Next ==
    \/ SetTag
    \/ SetExtra
    \/ CaptureMessage(Messages, CallMaps, BOOLEAN)
    \/ CaptureException(Faults, CallMaps, BOOLEAN)

Spec == Init /\ [][Next]_vars

\* Sequential calls that write and read the breadcrumb trail of one client.
NextTrail ==
    \/ AddBreadcrumb
    \/ ClearBreadcrumbs
    \/ CaptureMessage({"test"}, {EmptyDict}, {TRUE})
    \/ CaptureException({f \in Faults : ~f.str_raises}, {EmptyDict}, {TRUE})

SpecTrail == InitTrail /\ [][NextTrail]_vars

\* ----------------------------------------------------------- hook manager
BugwatchExcepthook == "_bugwatch_excepthook"
BugwatchThreadingHook == "_bugwatch_threading_excepthook"
BugwatchAsyncioHandler == "_bugwatch_asyncio_handler"
AppHandlers == {"app_hook"}

\* bugwatch._install_excepthook: the new sys.excepthook and saved original
_install_excepthook ==
    IF sys_excepthook # BugwatchExcepthook
      THEN [hook |-> BugwatchExcepthook, original |-> sys_excepthook]
      ELSE [hook |-> sys_excepthook, original |-> _original_excepthook]

\* bugwatch._install_threading_hook on Python 3.8 or later
_install_threading_hook ==
    IF threading_excepthook # BugwatchThreadingHook
      THEN [hook |-> BugwatchThreadingHook, original |-> threading_excepthook]
      ELSE [hook |-> threading_excepthook, original |-> _original_threading_excepthook]

\* The loop's handler saved and replaced without looking at what it is.
InstallAsyncioUnchecked ==
    IF loop_running
      THEN [hook |-> BugwatchAsyncioHandler, original |-> loop_handler]
      ELSE [hook |-> loop_handler, original |-> _original_asyncio_handler]

\* bugwatch._install_asyncio_hook: without a running loop
\* asyncio.get_running_loop() raises RuntimeError and nothing is installed.
_install_asyncio_hook ==
    IF loop_running /\ loop_handler # BugwatchAsyncioHandler
      THEN [hook |-> BugwatchAsyncioHandler, original |-> loop_handler]
      ELSE [hook |-> loop_handler, original |-> _original_asyncio_handler]

\* os.environ.get("BUGWATCH_API_KEY"): the variable is not set
EnvApiKey == None

\* The keyword options init() is called with: a hook without sampling, or
\* sampling without a hook.
InitOptions ==
    Options({MaxCap}, {Scale}, BeforeSendHooks) \cup Options({MaxCap}, Rates, {"None"})

\* install_excepthook, install_threading_hook, install_asyncio_hook as
\* init() is called; they are read only while the hooks are not marked
\* installed.
InstallFlags(choices) ==
    IF _hooks_installed THEN {<<TRUE, TRUE, TRUE>>} ELSE choices

\* The module globals and the handlers registered with the interpreter.
Globals ==
    [_client |-> _client,
     sys_excepthook |-> sys_excepthook,
     threading_excepthook |-> threading_excepthook,
     loop_handler |-> loop_handler,
     _original_excepthook |-> _original_excepthook,
     _original_threading_excepthook |-> _original_threading_excepthook,
     _original_asyncio_handler |-> _original_asyncio_handler,
     _hooks_installed |-> _hooks_installed,
     atexit_handlers |-> atexit_handlers]

\* The three handlers init() may replace.
Handlers ==
    [sys_excepthook |-> sys_excepthook,
     threading_excepthook |-> threading_excepthook,
     loop_handler |-> loop_handler]

SetGlobals(g) ==
    /\ _client' = g._client
    /\ sys_excepthook' = g.sys_excepthook
    /\ threading_excepthook' = g.threading_excepthook
    /\ loop_handler' = g.loop_handler
    /\ _original_excepthook' = g._original_excepthook
    /\ _original_threading_excepthook' = g._original_threading_excepthook
    /\ _original_asyncio_handler' = g._original_asyncio_handler
    /\ _hooks_installed' = g._hooks_installed
    /\ atexit_handlers' = g.atexit_handlers

\* The globals after the body of init() below its key check: a new global
\* client and, unless the hooks are marked installed, the requested hooks
\* and the atexit handler.
InitBody(flags) ==
    LET install == ~_hooks_installed
        install_excepthook == flags[1]
        install_threading_hook == flags[2]
        install_asyncio_hook == flags[3]
        e == IF install /\ install_excepthook THEN _install_excepthook
             ELSE [hook |-> sys_excepthook, original |-> _original_excepthook]
        t == IF install /\ install_threading_hook THEN _install_threading_hook
             ELSE [hook |-> threading_excepthook,
                   original |-> _original_threading_excepthook]
        a == IF install /\ install_asyncio_hook THEN _install_asyncio_hook
             ELSE [hook |-> loop_handler, original |-> _original_asyncio_handler]
    IN  [_client |-> "BugwatchClient",
         sys_excepthook |-> e.hook,
         threading_excepthook |-> t.hook,
         loop_handler |-> a.hook,
         _original_excepthook |-> e.original,
         _original_threading_excepthook |-> t.original,
         _original_asyncio_handler |-> a.original,
         _hooks_installed |-> TRUE,
         atexit_handlers |-> IF install THEN atexit_handlers + 1 ELSE atexit_handlers]

\* init() raising its ValueError only after the body has run.
InitChecksKeyLate(api_key, flags) ==
    LET key == IF api_key = None THEN EnvApiKey ELSE api_key
    IN  [raised |-> key = None, key |-> key, globals |-> InitBody(flags)]

\* bugwatch.init(): the key is taken from the argument or the environment;
\* without one ValueError is raised before anything is assigned.
init(api_key, flags) ==
    LET key == IF api_key = None THEN EnvApiKey ELSE api_key
    IN  IF key = None
          THEN [raised |-> TRUE, key |-> key, globals |-> Globals]
          ELSE [raised |-> FALSE, key |-> key, globals |-> InitBody(flags)]

\* bugwatch.init() without a key in the arguments or the environment.
InitWithoutKey ==
    /\ hook_pc = "idle"
    /\ \E flags \in {<<TRUE, TRUE, TRUE>>} :
          LET r == init(None, flags)
          IN  /\ r.raised
              /\ SetGlobals(r.globals)
              /\ last' = [NoCall EXCEPT !.op = "init", !.result = None]
    /\ UNCHANGED <<options, heap, _tags, _extra, _breadcrumbs, sent, next_id,
                   adds, adds_since_clear, clears, captures>>
    /\ UNCHANGED <<loop_running, hook_pc, hook_call, replaced, asyncio_requested, uncaught>>
    /\ UNCHANGED <<threadVars, transportVars, fingerprintVars, loggingVars>>

\* bugwatch.init() with a key, its install_* flags among `choices` and its
\* other keyword options among `opts_of`.
InitCall(choices, opts_of) ==
    /\ hook_pc = "idle"
    /\ _hooks_installed \/ atexit_handlers < MaxAtexit
    /\ \E api_key \in {Some("test-key")},
          flags \in InstallFlags(choices),
          opts \in opts_of :
          LET r == init(api_key, flags)
          IN  /\ ~r.raised
              /\ options' = [opts EXCEPT !.api_key = r.key[1]]
              /\ heap' = NewHeap(options')
              /\ _tags' = 1
              /\ _extra' = 2
              /\ _breadcrumbs' = 3
              /\ sent' = <<>>
              /\ adds' = 0
              /\ adds_since_clear' = 0
              /\ clears' = 0
              /\ captures' = 0
              /\ last' = [NoCall EXCEPT !.op = "init", !.flags = flags,
                                        !.before = Some(Handlers)]
              /\ UNCHANGED next_id
              /\ SetGlobals(r.globals)
              /\ replaced' = IF r.globals.sys_excepthook # sys_excepthook
                               THEN sys_excepthook ELSE replaced
              /\ asyncio_requested' = IF ~_hooks_installed THEN flags[3]
                                       ELSE asyncio_requested
    /\ UNCHANGED <<loop_running, hook_pc, hook_call, uncaught>>
    /\ UNCHANGED <<threadVars, transportVars, fingerprintVars, loggingVars>>

\* _uninstall_hooks assigning the saved handlers without testing them
UninstallUnguarded ==
    [Globals EXCEPT
        !.sys_excepthook = _original_excepthook,
        !.threading_excepthook = _original_threading_excepthook,
        !._hooks_installed = FALSE]

\* bugwatch._uninstall_hooks: the saved sys and threading handlers are put
\* back when one is saved; the event loop's handler is left as it is.
_uninstall_hooks ==
    [Globals EXCEPT
        !.sys_excepthook = IF _original_excepthook # "None"
                             THEN _original_excepthook ELSE @,
        !.threading_excepthook = IF _original_threading_excepthook # "None"
                                   THEN _original_threading_excepthook ELSE @,
        !._hooks_installed = FALSE]

\* bugwatch.close(): flush (the transport has nothing pending),
\* _uninstall_hooks, drop the client.
close == [_uninstall_hooks EXCEPT !._client = "None"]

CloseCall ==
    /\ hook_pc = "idle"
    /\ SetGlobals(close)
    /\ last' = [NoCall EXCEPT !.op = "close"]
    /\ UNCHANGED <<options, heap, _tags, _extra, _breadcrumbs, sent, next_id,
                   adds, adds_since_clear, clears, captures>>
    /\ UNCHANGED <<loop_running, hook_pc, hook_call, replaced, asyncio_requested, uncaught>>
    /\ UNCHANGED <<threadVars, transportVars, fingerprintVars, loggingVars>>

\* Code outside Bugwatch assigns sys.excepthook.
AppSetsExcepthook ==
    /\ hook_pc = "idle"
    /\ \E h \in AppHandlers : sys_excepthook # h /\ sys_excepthook' = h
    /\ last' = [NoCall EXCEPT !.op = "sys.excepthook ="]
    /\ UNCHANGED <<options, heap, _tags, _extra, _breadcrumbs, sent, next_id,
                   adds, adds_since_clear, clears, captures>>
    /\ UNCHANGED <<_client, threading_excepthook, loop_running, loop_handler,
                   _original_excepthook, _original_threading_excepthook,
                   _original_asyncio_handler, _hooks_installed, atexit_handlers,
                   hook_pc, hook_call, replaced, asyncio_requested, uncaught>>
    /\ UNCHANGED <<threadVars, transportVars, fingerprintVars, loggingVars>>

\* The interpreter passes an uncaught fault to sys.excepthook.
RaiseUncaught ==
    /\ hook_pc = "idle"
    /\ uncaught < MaxUncaught
    /\ uncaught' = uncaught + 1
    /\ \E fault \in Faults :
          IF sys_excepthook = BugwatchExcepthook
            THEN /\ hook_pc' = "capture"
                 /\ hook_call' = [via |-> sys_excepthook, fault |-> Some(fault),
                                  client |-> _client, previous |-> replaced,
                                  capture_calls |-> 0, chained |-> <<>>,
                                  requested |-> asyncio_requested,
                                  origin |-> None]
            ELSE /\ hook_pc' = "idle"
                 /\ hook_call' = [via |-> sys_excepthook, fault |-> Some(fault),
                                  client |-> _client, previous |-> replaced,
                                  capture_calls |-> 0,
                                  chained |-> <<[handler |-> sys_excepthook,
                                                 fault |-> fault]>>,
                                  requested |-> asyncio_requested,
                                  origin |-> None]
    /\ UNCHANGED <<clientVars, _client, sys_excepthook, threading_excepthook, loop_running,
                   loop_handler, _original_excepthook, _original_threading_excepthook,
                   _original_asyncio_handler, _hooks_installed, atexit_handlers,
                   replaced, asyncio_requested>>
    /\ UNCHANGED <<threadVars, transportVars, fingerprintVars, loggingVars>>

\* An exception of the capture call, let through to the hook's caller.
CaptureErrorPropagates(raised) == IF raised THEN "idle" ELSE "chain"

\* _bugwatch_excepthook, the try block: `except Exception: pass` around the
\* capture, so the hook goes on to the chained call whether or not it raised.
TryCapture(raised) == "chain"

\* _bugwatch_excepthook up to the end of its try block.
HookCapture ==
    /\ hook_pc = "capture"
    /\ IF _client # "None"
         THEN \E draw \in DrawsOf(options), send_ok \in BOOLEAN :
                 LET r == capture_exception(hook_call.fault, "fatal", EmptyDict,
                                            EmptyDict, None, draw, send_ok)
                 IN  /\ Captured("capture_exception", "fatal", r, draw)
                     /\ hook_call' = [hook_call EXCEPT !.capture_calls = @ + 1]
                     /\ hook_pc' = TryCapture(r.result = None)
         ELSE /\ UNCHANGED <<clientVars, hook_call>>
              /\ hook_pc' = "chain"
    /\ UNCHANGED <<_client, sys_excepthook, threading_excepthook, loop_running,
                   loop_handler, _original_excepthook, _original_threading_excepthook,
                   _original_asyncio_handler, _hooks_installed, atexit_handlers,
                   replaced, asyncio_requested, uncaught>>
    /\ UNCHANGED <<threadVars, transportVars, fingerprintVars, loggingVars>>

\* _bugwatch_excepthook, the chained call of the saved handler.
HookChain ==
    /\ hook_pc = "chain"
    /\ hook_pc' = "idle"
    /\ hook_call' = IF _original_excepthook # "None"
                      THEN [hook_call EXCEPT
                               !.chained = Append(@, [handler |-> _original_excepthook,
                                                      fault |-> hook_call.fault[1]])]
                      ELSE hook_call
    /\ UNCHANGED <<clientVars, _client, sys_excepthook, threading_excepthook, loop_running,
                   loop_handler, _original_excepthook, _original_threading_excepthook,
                   _original_asyncio_handler, _hooks_installed, atexit_handlers,
                   replaced, asyncio_requested, uncaught>>
    /\ UNCHANGED <<threadVars, transportVars, fingerprintVars, loggingVars>>

\* The process: init, close, foreign hook assignments and uncaught faults.
InitHook ==
    /\ InitProcess(BOOLEAN)
    /\ pc = [t \in Threads |-> "idle"]
    /\ loc = [t \in Threads |-> NoLocals]
    /\ options = [api_key |-> "test-api-key", environment |-> None,
                  max_breadcrumbs |-> MaxCap, sample_rate |-> Scale,
                  before_send |-> "None", capture_locals |-> FALSE]
    /\ heap = NewHeap(options)
    /\ _tags = 1
    /\ _extra = 2
    /\ _breadcrumbs = 3
    /\ sent = <<>>
    /\ next_id = 0
    /\ adds = 0
    /\ adds_since_clear = 0
    /\ clears = 0
    /\ captures = 0
    /\ last = NoCall
    /\ wire = NoWire
    /\ fp = NoFingerprint
    /\ handler = None
    /\ log_call = NoLogCall

NextHook ==
    \/ InitWithoutKey
    \/ InitCall({<<TRUE, TRUE, TRUE>>, <<FALSE, TRUE, TRUE>>}, InitOptions)
    \/ CloseCall
    \/ AppSetsExcepthook
    \/ RaiseUncaught
    \/ HookCapture
    \/ HookChain

SpecHook == InitHook /\ [][NextHook]_vars

\* ---------------------------------------------------------- asyncio tasks
\* An event loop starts running (asyncio.run) where none was; a new loop has
\* no exception handler of its own.
LoopStart ==
    /\ hook_pc = "idle"
    /\ ~loop_running
    /\ loop_running' = TRUE
    /\ loop_handler' = "None"
    /\ last' = [NoCall EXCEPT !.op = "asyncio.run"]
    /\ UNCHANGED <<options, heap, _tags, _extra, _breadcrumbs, sent, next_id,
                   adds, adds_since_clear, clears, captures>>
    /\ UNCHANGED <<_client, sys_excepthook, threading_excepthook,
                   _original_excepthook, _original_threading_excepthook,
                   _original_asyncio_handler, _hooks_installed, atexit_handlers,
                   hook_pc, hook_call, replaced, asyncio_requested, uncaught>>
    /\ UNCHANGED <<threadVars, transportVars, fingerprintVars, loggingVars>>

DefaultExceptionHandler == "loop.default_exception_handler"

\* A task of the running loop ends with a fault nobody retrieved: the loop
\* calls its exception handler, or its default one when none is set.
\* str(context["future"]): the loop's text for the task that failed
TaskTexts == {"<Task finished name='Task-2' coro=<work() done>>"}

TaskFault ==
    /\ hook_pc = "idle"
    /\ loop_running
    /\ uncaught < MaxUncaught
    /\ uncaught' = uncaught + 1
    /\ \E fault \in Faults, task \in TaskTexts :
          IF loop_handler = BugwatchAsyncioHandler
            THEN /\ hook_pc' = "task_capture"
                 /\ hook_call' = [via |-> loop_handler, fault |-> Some(fault),
                                  client |-> _client,
                                  previous |-> _original_asyncio_handler,
                                  capture_calls |-> 0, chained |-> <<>>,
                                  requested |-> asyncio_requested,
                                  origin |-> Some(task)]
            ELSE /\ hook_pc' = "idle"
                 /\ hook_call' = [via |-> DefaultExceptionHandler, fault |-> Some(fault),
                                  client |-> _client,
                                  previous |-> _original_asyncio_handler,
                                  capture_calls |-> 0,
                                  chained |-> <<[handler |-> DefaultExceptionHandler,
                                                 fault |-> fault]>>,
                                  requested |-> asyncio_requested,
                                  origin |-> Some(task)]
    /\ UNCHANGED <<clientVars, _client, sys_excepthook, threading_excepthook, loop_running,
                   loop_handler, _original_excepthook, _original_threading_excepthook,
                   _original_asyncio_handler, _hooks_installed, atexit_handlers,
                   replaced, asyncio_requested>>
    /\ UNCHANGED <<threadVars, transportVars, fingerprintVars, loggingVars>>

\* _bugwatch_asyncio_handler up to the end of its try block.
TaskCapture ==
    /\ hook_pc = "task_capture"
    /\ IF hook_call.fault # None /\ _client # "None"
         THEN \E draw \in DrawsOf(options), send_ok \in BOOLEAN :
                 LET extra == ("asyncio.message" :> "Task exception was never retrieved")
                                  @@ ("asyncio.task" :> hook_call.origin[1])
                     r == capture_exception(hook_call.fault, "error", EmptyDict,
                                            extra, None, draw, send_ok)
                 IN  /\ Captured("capture_exception", "error", r, draw)
                     /\ hook_call' = [hook_call EXCEPT !.capture_calls = @ + 1]
                     /\ hook_pc' = IF TryCapture(r.result = None) = "chain"
                                     THEN "task_chain" ELSE "idle"
         ELSE /\ UNCHANGED <<clientVars, hook_call>>
              /\ hook_pc' = "task_chain"
    /\ UNCHANGED <<_client, sys_excepthook, threading_excepthook, loop_running,
                   loop_handler, _original_excepthook, _original_threading_excepthook,
                   _original_asyncio_handler, _hooks_installed, atexit_handlers,
                   replaced, asyncio_requested, uncaught>>
    /\ UNCHANGED <<threadVars, transportVars, fingerprintVars, loggingVars>>

\* _bugwatch_asyncio_handler: the saved handler, or the loop's default one.
TaskChain ==
    /\ hook_pc = "task_chain"
    /\ hook_pc' = "idle"
    /\ hook_call' = [hook_call EXCEPT
                        !.chained = Append(@,
                            [handler |-> IF _original_asyncio_handler # "None"
                                           THEN _original_asyncio_handler
                                           ELSE DefaultExceptionHandler,
                             fault |-> hook_call.fault[1]])]
    /\ UNCHANGED <<clientVars, _client, sys_excepthook, threading_excepthook, loop_running,
                   loop_handler, _original_excepthook, _original_threading_excepthook,
                   _original_asyncio_handler, _hooks_installed, atexit_handlers,
                   replaced, asyncio_requested, uncaught>>
    /\ UNCHANGED <<threadVars, transportVars, fingerprintVars, loggingVars>>

\* --------------------------------------------------------- worker threads
\* args.thread of threading.excepthook: the thread's name, or no thread
ThreadArgs == {Some("worker-1"), None}

\* A worker thread ends with an uncaught fault: threading calls
\* threading.excepthook(args).
ThreadFault ==
    /\ hook_pc = "idle"
    /\ uncaught < MaxUncaught
    /\ uncaught' = uncaught + 1
    /\ \E fault \in Faults, thread \in ThreadArgs :
          IF threading_excepthook = BugwatchThreadingHook
            THEN /\ hook_pc' = "thread_capture"
                 /\ hook_call' = [via |-> threading_excepthook, fault |-> Some(fault),
                                  client |-> _client,
                                  previous |-> _original_threading_excepthook,
                                  capture_calls |-> 0, chained |-> <<>>,
                                  requested |-> asyncio_requested,
                                  origin |-> thread]
            ELSE /\ hook_pc' = "idle"
                 /\ hook_call' = [via |-> threading_excepthook, fault |-> Some(fault),
                                  client |-> _client,
                                  previous |-> _original_threading_excepthook,
                                  capture_calls |-> 0,
                                  chained |-> <<[handler |-> threading_excepthook,
                                                 fault |-> fault]>>,
                                  requested |-> asyncio_requested,
                                  origin |-> thread]
    /\ UNCHANGED <<clientVars, _client, sys_excepthook, threading_excepthook, loop_running,
                   loop_handler, _original_excepthook, _original_threading_excepthook,
                   _original_asyncio_handler, _hooks_installed, atexit_handlers,
                   replaced, asyncio_requested>>
    /\ UNCHANGED <<threadVars, transportVars, fingerprintVars, loggingVars>>

\* _bugwatch_threading_excepthook up to the end of its try block.
ThreadCapture ==
    /\ hook_pc = "thread_capture"
    /\ IF _client # "None"
         THEN \E draw \in DrawsOf(options), send_ok \in BOOLEAN :
                 LET thread_name == IF hook_call.origin # None
                                      THEN hook_call.origin[1] ELSE "unknown"
                     r == capture_exception(hook_call.fault, "error",
                                            "thread.name" :> thread_name,
                                            EmptyDict, None, draw, send_ok)
                 IN  /\ Captured("capture_exception", "error", r, draw)
                     /\ hook_call' = [hook_call EXCEPT !.capture_calls = @ + 1]
                     /\ hook_pc' = IF TryCapture(r.result = None) = "chain"
                                     THEN "thread_chain" ELSE "idle"
         ELSE /\ UNCHANGED <<clientVars, hook_call>>
              /\ hook_pc' = "thread_chain"
    /\ UNCHANGED <<_client, sys_excepthook, threading_excepthook, loop_running,
                   loop_handler, _original_excepthook, _original_threading_excepthook,
                   _original_asyncio_handler, _hooks_installed, atexit_handlers,
                   replaced, asyncio_requested, uncaught>>
    /\ UNCHANGED <<threadVars, transportVars, fingerprintVars, loggingVars>>

\* _bugwatch_threading_excepthook, the chained call of the saved handler.
ThreadChain ==
    /\ hook_pc = "thread_chain"
    /\ hook_pc' = "idle"
    /\ hook_call' = IF _original_threading_excepthook # "None"
                      THEN [hook_call EXCEPT
                               !.chained = Append(@,
                                   [handler |-> _original_threading_excepthook,
                                    fault |-> hook_call.fault[1]])]
                      ELSE hook_call
    /\ UNCHANGED <<clientVars, _client, sys_excepthook, threading_excepthook, loop_running,
                   loop_handler, _original_excepthook, _original_threading_excepthook,
                   _original_asyncio_handler, _hooks_installed, atexit_handlers,
                   replaced, asyncio_requested, uncaught>>
    /\ UNCHANGED <<threadVars, transportVars, fingerprintVars, loggingVars>>

\* init() in a process with worker threads and, when a loop is running,
\* tasks; faults in either.
NextWorkers ==
    \/ InitCall({<<TRUE, TRUE, TRUE>>, <<TRUE, FALSE, TRUE>>}, InitOptions)
    \/ CloseCall
    \/ ThreadFault
    \/ ThreadCapture
    \/ ThreadChain
    \/ TaskFault
    \/ TaskCapture
    \/ TaskChain

SpecWorkers == InitHook /\ [][NextWorkers]_vars

\* ------------------------------------------------- module-level functions
\* bugwatch.capture_message calling the client without looking whether
\* there is one: the method call on None raises.
CaptureWithoutClientCheck(message, level, tags, extra, draw, send_ok) ==
    IF _client = "None"
      THEN Outcome(heap, sent, next_id, None, <<"no_client">>, "not_called", 0, None)
      ELSE capture_message(message, level, tags, extra, draw, send_ok)

\* bugwatch.capture_message: "" without a global client, else the client's
\* capture_message.
module_capture_message(message, level, tags, extra, draw, send_ok) ==
    IF _client = "None"
      THEN Outcome(heap, sent, next_id, Some(""), <<"no_client">>, "not_called", 0, None)
      ELSE capture_message(message, level, tags, extra, draw, send_ok)

\* bugwatch.capture_exception: "" without a global client, else the client's
\* capture_exception.
module_capture_exception(error, level, tags, extra, exc_info, draw, send_ok) ==
    IF _client = "None"
      THEN Outcome(heap, sent, next_id, Some(""), <<"no_client">>, "not_called", 0, None)
      ELSE capture_exception(error, level, tags, extra, exc_info, draw, send_ok)

ModuleCapture ==
    /\ hook_pc = "idle"
    /\ captures < MaxCaptures
    /\ next_id < MaxCaptures
    /\ \E draw \in DrawsOf(options), send_ok \in BOOLEAN :
          \/ Captured("capture_message", "info",
                      module_capture_message("test", "info", EmptyDict, EmptyDict,
                                             draw, send_ok), draw)
          \/ \E f \in Faults :
                Captured("capture_exception", "error",
                         module_capture_exception(Some(f), "error", EmptyDict, EmptyDict,
                                                  None, draw, send_ok), draw)
    /\ UNCHANGED <<hookVars, threadVars, transportVars, fingerprintVars, loggingVars>>

\* bugwatch.get_client
get_client == _client

GetClient ==
    /\ hook_pc = "idle"
    /\ last' = [NoCall EXCEPT !.op = "get_client", !.result = Some(get_client)]
    /\ UNCHANGED <<options, heap, _tags, _extra, _breadcrumbs, sent, next_id,
                   adds, adds_since_clear, clears, captures>>
    /\ UNCHANGED <<hookVars, threadVars, transportVars, fingerprintVars, loggingVars>>

PlainOptions == Options({MaxCap}, {Scale}, {"None"})
AllFlags == BOOLEAN \X BOOLEAN \X BOOLEAN

\* init() and close() in any order with every combination of install
\* flags, and uncaught faults in the main thread.
NextInstall ==
    \/ InitWithoutKey
    \/ InitCall(AllFlags, PlainOptions)
    \/ CloseCall
    \/ RaiseUncaught
    \/ HookCapture
    \/ HookChain

SpecInstall == InitHook /\ [][NextInstall]_vars

\* init() and close() around event loops that start before or after init,
\* and faults in their tasks.
NextTasks ==
    \/ InitCall({<<TRUE, TRUE, TRUE>>, <<TRUE, TRUE, FALSE>>}, PlainOptions)
    \/ CloseCall
    \/ LoopStart
    \/ TaskFault
    \/ TaskCapture
    \/ TaskChain

SpecTasks == InitHook /\ [][NextTasks]_vars

\* The module-level functions before init(), between init() and close(),
\* and after close().
NextModule ==
    \/ InitCall({<<TRUE, TRUE, TRUE>>}, PlainOptions)
    \/ CloseCall
    \/ ModuleCapture
    \/ GetClient

SpecModule == InitHook /\ [][NextModule]_vars

\* ---------------------------------------------------------------- threads
\* Calls on one client from several threads. The client holds no lock, so
\* a call is a sequence of steps, one per read or write of self._breadcrumbs
\* or of a list object, and the interpreter may switch threads between any
\* two of them.
Goto(t, label) == pc' = [pc EXCEPT ![t] = label]

\* add_breadcrumb: the Breadcrumb is built from the arguments.
AddStart(t) ==
    /\ pc[t] = "idle"
    /\ adds < MaxAdds
    /\ adds' = adds + 1
    /\ adds_since_clear' = adds_since_clear + 1
    /\ loc' = [loc EXCEPT ![t] = [NoLocals EXCEPT !.crumb = Some(Breadcrumb("test", adds + 1))]]
    /\ Goto(t, "append_load")
    /\ UNCHANGED <<options, heap, _tags, _extra, _breadcrumbs, sent, next_id, clears,
                   captures, last, hookVars, transportVars, fingerprintVars, loggingVars>>

\* self._breadcrumbs.append(breadcrumb): the attribute is read ...
AddAppendLoad(t) ==
    /\ pc[t] = "append_load"
    /\ loc' = [loc EXCEPT ![t].list = _breadcrumbs]
    /\ Goto(t, "append")
    /\ UNCHANGED <<clientVars, hookVars, transportVars, fingerprintVars, loggingVars>>

\* ... and the list it held is appended to; `last` notes the breadcrumb
\* appended most recently.
AddAppend(t) ==
    /\ pc[t] = "append"
    /\ heap' = [heap EXCEPT ![loc[t].list] = Append(@, loc[t].crumb[1])]
    /\ last' = [last EXCEPT !.appended = loc[t].crumb]
    /\ Goto(t, "len_load")
    /\ UNCHANGED <<options, _tags, _extra, _breadcrumbs, sent, next_id, adds,
                   adds_since_clear, clears, captures, loc, hookVars, transportVars,
                   fingerprintVars, loggingVars>>

\* len(self._breadcrumbs) > self.options.max_breadcrumbs: the attribute ...
AddLenLoad(t) ==
    /\ pc[t] = "len_load"
    /\ loc' = [loc EXCEPT ![t].list = _breadcrumbs]
    /\ Goto(t, "len")
    /\ UNCHANGED <<clientVars, hookVars, transportVars, fingerprintVars, loggingVars>>

\* ... and the comparison; the call returns when the trail is short enough.
AddLen(t) ==
    /\ pc[t] = "len"
    /\ IF Len(heap[loc[t].list]) > options.max_breadcrumbs
         THEN /\ Goto(t, "slice_load")
              /\ UNCHANGED loc
         ELSE /\ Goto(t, "idle")
              /\ loc' = [loc EXCEPT ![t] = NoLocals]
    /\ UNCHANGED <<clientVars, hookVars, transportVars, fingerprintVars, loggingVars>>

\* self._breadcrumbs[-max_breadcrumbs:]: the attribute ...
AddSliceLoad(t) ==
    /\ pc[t] = "slice_load"
    /\ loc' = [loc EXCEPT ![t].list = _breadcrumbs]
    /\ Goto(t, "slice")
    /\ UNCHANGED <<clientVars, hookVars, transportVars, fingerprintVars, loggingVars>>

\* ... and the slice, a new list.
AddSlice(t) ==
    /\ pc[t] = "slice"
    /\ loc' = [loc EXCEPT ![t].tail =
                  SliceFromMinus(heap[loc[t].list], options.max_breadcrumbs)]
    /\ Goto(t, "store")
    /\ UNCHANGED <<clientVars, hookVars, transportVars, fingerprintVars, loggingVars>>

\* self._breadcrumbs = <the slice>
AddStore(t) ==
    /\ pc[t] = "store"
    /\ heap' = Append(heap, loc[t].tail)
    /\ _breadcrumbs' = Len(heap) + 1
    /\ loc' = [loc EXCEPT ![t] = NoLocals]
    /\ Goto(t, "idle")
    /\ UNCHANGED <<options, _tags, _extra, sent, next_id, adds, adds_since_clear,
                   clears, captures, last, hookVars, transportVars, fingerprintVars, loggingVars>>

\* capture_message up to the read of self._breadcrumbs in _create_event
CaptureLoad(t) ==
    /\ pc[t] = "idle"
    /\ captures < MaxCaptures
    /\ loc' = [loc EXCEPT ![t] = [NoLocals EXCEPT !.list = _breadcrumbs]]
    /\ Goto(t, "copy")
    /\ UNCHANGED <<clientVars, hookVars, transportVars, fingerprintVars, loggingVars>>

\* capture_message from list(<the list read>) to its return
CaptureCopy(t) ==
    /\ pc[t] = "copy"
    /\ LET b == _create_event(heap, loc[t].list, next_id, "info", None,
                              Some("test"), EmptyDict, EmptyDict)
       IN  Captured("capture_message", "info",
                    HookAndSend(b.heap, next_id + 1, b.event, <<"create_event">>, TRUE), 0)
    /\ loc' = [loc EXCEPT ![t] = NoLocals]
    /\ Goto(t, "idle")
    /\ UNCHANGED <<hookVars, transportVars, fingerprintVars, loggingVars>>

\* The trail under concurrent calls: capacities from 1, no sampling, no hook.
InitThreads == InitClient(Options(1..MaxCap, {Scale}, {"None"}))

NextThreads ==
    \E t \in Threads :
        \/ AddStart(t)
        \/ AddAppendLoad(t)
        \/ AddAppend(t)
        \/ AddLenLoad(t)
        \/ AddLen(t)
        \/ AddSliceLoad(t)
        \/ AddSlice(t)
        \/ AddStore(t)
        \/ CaptureLoad(t)
        \/ CaptureCopy(t)

SpecThreads == InitThreads /\ [][NextThreads]_vars

\* -------------------------------------------------------------- transport
\* What a POST of one event can come to: a response with a status, or a
\* failure before one (serialization, connection, timeout).
Statuses == {200, 201, 202, 204, 404, 500}
NetOutcomes ==
    [kind : {"response"}, status : Statuses]
        \cup [kind : {"serialize_error", "url_error", "timeout"}, status : {0}]

\* urllib.request.urlopen returns a response for a 2xx status and raises
\* HTTPError for any other (after its redirect handling).
UrlopenRaises(status) == ~(200 <= status /\ status < 300)

TransportResult(returned, completed) == [returned |-> returned, completed |-> completed]

\* HttpTransport.send with no except clause: every failure leaves the call
\* as an exception.
HttpSendUncaught(outcome) ==
    IF outcome.kind = "response" /\ ~UrlopenRaises(outcome.status)
      THEN TransportResult(Some(outcome.status \in {200, 201, 202}), TRUE)
      ELSE TransportResult(None, TRUE)

\* HttpTransport.send: True for a response with status 200, 201 or 202,
\* False for any other response and for everything the try block raises.
\* `returned` is None when the call raises.
HttpTransport_send(outcome) ==
    IF outcome.kind = "serialize_error" THEN TransportResult(Some(FALSE), TRUE)
    ELSE IF outcome.kind \in {"url_error", "timeout"} THEN TransportResult(Some(FALSE), TRUE)
    ELSE IF UrlopenRaises(outcome.status) THEN TransportResult(Some(FALSE), TRUE)
    ELSE IF outcome.status \in {200, 201, 202} THEN TransportResult(Some(TRUE), TRUE)
    ELSE TransportResult(Some(FALSE), TRUE)

SendPath(path, requests) == [path |-> path, requests |-> requests]

\* HttpTransport.send calling urlopen a second time after a failure
HttpSendRetries(outcome) ==
    IF HttpTransport_send(outcome).returned = Some(TRUE)
      THEN SendPath(<<"Idle", "Sending", "Delivered">>, 1)
      ELSE SendPath(<<"Idle", "Sending", "Failed", "Sending", "Failed">>,
                    IF outcome.kind = "serialize_error" THEN 0 ELSE 2)

\* The course of one HttpTransport.send call: from the call (Idle) into the
\* try block (Sending), then one return, True (Delivered) or False
\* (Failed); `requests` counts its urlopen calls, none when
\* _serialize_event raised before the request was built.
HttpSendPath(outcome) ==
    SendPath(<<"Idle", "Sending",
               IF HttpTransport_send(outcome).returned = Some(TRUE)
                 THEN "Delivered" ELSE "Failed">>,
             IF outcome.kind = "serialize_error" THEN 0 ELSE 1)

\* AsyncHttpTransport.send_async: httpx returns every response, whatever
\* its status.
send_async(outcome) ==
    IF outcome.kind # "response" THEN TransportResult(Some(FALSE), TRUE)
    ELSE IF outcome.status \in {200, 201} THEN TransportResult(Some(TRUE), TRUE)
    ELSE TransportResult(Some(FALSE), TRUE)

\* AsyncHttpTransport.send waiting for the request in every context
AsyncSendWaits(running, outcome) == send_async(outcome)

\* AsyncHttpTransport.send: inside a running loop the request is scheduled
\* and True returned before it has run; otherwise send_async is run to its
\* end.
AsyncHttpTransport_send(running, outcome) ==
    IF running THEN TransportResult(Some(TRUE), FALSE) ELSE send_async(outcome)

\* The course of one AsyncHttpTransport.send call: inside a running loop
\* it returns while the request is still to be made.
AsyncSendPath(running, outcome) ==
    IF running THEN SendPath(<<"Idle", "Sending">>, 0)
    ELSE SendPath(<<"Idle", "Sending",
                    IF send_async(outcome).returned = Some(TRUE)
                      THEN "Delivered" ELSE "Failed">>,
                  IF outcome.kind = "serialize_error" THEN 0 ELSE 1)

\* A capture call on a client whose transport is `transport`.
CaptureOver(transport, result, course, outcome) ==
    /\ captures < MaxCaptures
    /\ \E op \in {"capture_message", "capture_exception"} :
          LET r == IF op = "capture_message"
                     THEN capture_message("test", "info", EmptyDict, EmptyDict, 0,
                                          result.returned # None)
                     ELSE capture_exception(Some(CHOOSE f \in Faults : ~f.str_raises),
                                            "error", EmptyDict, EmptyDict, None, 0,
                                            result.returned # None)
          IN  /\ Captured(op, IF op = "capture_message" THEN "info" ELSE "error", r, 0)
              /\ wire' = IF r.nsend = 1
                           THEN [transport |-> transport, outcome |-> Some(outcome),
                                 returned |-> result.returned,
                                 completed |-> result.completed,
                                 path |-> course.path,
                                 requests |-> course.requests]
                           ELSE wire
    /\ UNCHANGED <<hookVars, threadVars, fingerprintVars, loggingVars>>

CaptureOverHttp ==
    \E outcome \in NetOutcomes :
        CaptureOver("HttpTransport", HttpTransport_send(outcome),
                    HttpSendPath(outcome), outcome)

CaptureOverAsync ==
    \E outcome \in NetOutcomes :
        CaptureOver("AsyncHttpTransport",
                    AsyncHttpTransport_send(loop_running, outcome),
                    AsyncSendPath(loop_running, outcome), outcome)

\* A client sending over HTTP: no sampling, no hook; the calling context
\* with or without a running event loop.
InitTransport ==
    /\ InitProcess(BOOLEAN)
    /\ pc = [t \in Threads |-> "idle"]
    /\ loc = [t \in Threads |-> NoLocals]
    /\ options \in Options({MaxCap}, {Scale}, {"None"})
    /\ heap = NewHeap(options)
    /\ _tags = 1
    /\ _extra = 2
    /\ _breadcrumbs = 3
    /\ sent = <<>>
    /\ next_id = 0
    /\ adds = 0
    /\ adds_since_clear = 0
    /\ clears = 0
    /\ captures = 0
    /\ last = NoCall
    /\ wire = NoWire
    /\ fp = NoFingerprint
    /\ handler = None
    /\ log_call = NoLogCall

NextTransport == CaptureOverHttp \/ CaptureOverAsync

SpecTransport == InitTransport /\ [][NextTransport]_vars

\* ------------------------------------------------- fingerprint functions
\* Calls of generate_fingerprint and fingerprint_from_exception, two at a
\* time, on arguments that differ in one respect.
MaxRun == 2
MaxLead == 5
MaxApps == 2

Types == {"ValueError", "KeyError"}
Digests == {None, Some(""), Some("app/views.py:view:7")}

RECURSIVE Rep(_, _)
Rep(c, n) == IF n = 0 THEN <<>> ELSE <<c>> \o Rep(c, n - 1)

\* Pieces of message text around the part that varies.
Texts == {<<>>, <<"g", " ">>, <<"x", "1">>, <<"0">>}
DigitRuns == UNION {[1..n -> {"0", "1"}] : n \in 1..MaxRun}
\* str(uuid.uuid4()) and its upper-case and digits-only likes
UuidTexts ==
    {Rep(c, 8) \o <<"-">> \o Rep(c, 4) \o <<"-">> \o Rep(c, 4) \o <<"-">>
        \o Rep(c, 4) \o <<"-">> \o Rep(c, 12) : c \in {"1", "a", "F"}}
Quotes == {"'", "\""}
QuotedTexts == Texts \cup {<<" ", "\"", "c", "\"">>}
Contents == {<<>>, <<"k">>, <<"7">>, <<"a", "\"", "b">>, <<"i", "t", "'", "s">>}

GfArgs(error_type, message, stacktrace) ==
    [type |-> error_type, message |-> message, stacktrace |-> stacktrace,
     frames |-> <<>>]

\* generate_fingerprint called on two argument triples
Compare(op, a, b) ==
    /\ fp' = [op |-> op, a |-> Some(a), b |-> Some(b),
              fa |-> Some(generate_fingerprint(a.type, a.message, a.stacktrace)),
              fb |-> Some(generate_fingerprint(b.type, b.message, b.stacktrace))]
    /\ UNCHANGED <<clientVars, hookVars, threadVars, transportVars, loggingVars>>

\* Two messages that differ in one run of digits
FingerprintDigits ==
    /\ fp = NoFingerprint
    /\ \E t \in Types, d \in Digests, pre \in Texts, post \in Texts,
          ra \in DigitRuns, rb \in DigitRuns :
           Compare("digits", GfArgs(t, pre \o ra \o post, d), GfArgs(t, pre \o rb \o post, d))

\* Two messages that differ in one UUID
FingerprintUuids ==
    /\ fp = NoFingerprint
    /\ \E t \in Types, d \in Digests, pre \in Texts, post \in Texts,
          ua \in UuidTexts, ub \in UuidTexts :
           Compare("uuid", GfArgs(t, pre \o ua \o post, d), GfArgs(t, pre \o ub \o post, d))

\* Two messages that differ in what stands between one pair of quotes
FingerprintQuoted ==
    /\ fp = NoFingerprint
    /\ \E t \in Types, d \in {None}, pre \in Texts, post \in QuotedTexts, q \in Quotes,
          ca \in Contents, cb \in Contents :
           /\ \A k \in 1..Len(ca) : ca[k] # q
           /\ \A k \in 1..Len(cb) : cb[k] # q
           /\ Compare("quoted", GfArgs(t, pre \o <<q>> \o ca \o <<q>> \o post, d),
                                GfArgs(t, pre \o <<q>> \o cb \o <<q>> \o post, d))

\* The same type and message with two stacktrace arguments
FingerprintDigests ==
    /\ fp = NoFingerprint
    /\ \E t \in Types, m \in Texts, pre \in DigitRuns, da \in Digests, db \in Digests :
           Compare("digest", GfArgs(t, pre \o m, da), GfArgs(t, pre \o m, db))

\* ExceptionInfo.stacktrace: library frames, then application frames at
\* lines 1, 2, ..., then library frames again.
Stack(lead, apps, trail) ==
    [i \in 1..lead |-> StackFrameOf(LibFrame)]
        \o [i \in 1..apps |-> StackFrameOf([AppFrame EXCEPT !.lineno = i])]
        \o [i \in 1..trail |-> StackFrameOf(LibFrame)]
Stacks ==
    {Stack(lead, apps, trail) : lead \in 0..MaxLead, apps \in 0..MaxApps, trail \in 0..1}

\* fingerprint_from_exception called on two ExceptionInfo objects
FingerprintFrames ==
    /\ fp = NoFingerprint
    /\ \E t \in Types, value \in {"list index 5 out of range"},
          sa \in Stacks, sb \in Stacks :
           /\ fp' = [op |-> "frames",
                     a |-> Some([GfArgs(t, Chars(value), None) EXCEPT !.frames = sa]),
                     b |-> Some([GfArgs(t, Chars(value), None) EXCEPT !.frames = sb]),
                     fa |-> Some(fingerprint_from_exception(
                                   [type |-> t, value |-> value, stacktrace |-> sa])),
                     fb |-> Some(fingerprint_from_exception(
                                   [type |-> t, value |-> value, stacktrace |-> sb]))]
           /\ UNCHANGED <<clientVars, hookVars, threadVars, transportVars, loggingVars>>

InitFingerprint == InitClient(Options({MaxCap}, {Scale}, {"None"}))

NextFingerprint ==
    \/ FingerprintDigits
    \/ FingerprintUuids
    \/ FingerprintQuoted
    \/ FingerprintDigests
    \/ FingerprintFrames

SpecFingerprint == InitFingerprint /\ [][NextFingerprint]_vars

\* ================================================================ claims
\* -------------------------------------------------------- logging bridge
\* logging.DEBUG .. logging.CRITICAL
LogLevels == {10, 20, 30, 40, 50}
LevelName(levelno) ==
    CASE levelno = 10 -> "DEBUG" [] levelno = 20 -> "INFO" [] levelno = 30 -> "WARNING"
      [] levelno = 40 -> "ERROR" [] OTHER -> "CRITICAL"

\* BugwatchHandler._get_bugwatch_level
_get_bugwatch_level(levelno) ==
    IF levelno >= 50 THEN "fatal"
    ELSE IF levelno >= 40 THEN "error"
    ELSE IF levelno >= 30 THEN "warning"
    ELSE IF levelno >= 20 THEN "info"
    ELSE "debug"

\* BugwatchHandler.__init__: `level` is the logging.Handler level that the
\* logger compares a record with before it calls emit().
BugwatchHandler(level, capture_breadcrumbs, breadcrumb_level) ==
    [level |-> IF capture_breadcrumbs THEN breadcrumb_level ELSE level,
     event_level |-> level,
     capture_breadcrumbs |-> capture_breadcrumbs,
     breadcrumb_level |-> breadcrumb_level]

\* setup_logging(level, capture_breadcrumbs, breadcrumb_level): one handler on
\* the root logger, which also receives the records of the "bugwatch" logger.
SetupLogging ==
    /\ handler = None
    /\ \E level \in LogLevels, capture_breadcrumbs \in BOOLEAN, breadcrumb_level \in LogLevels :
          handler' = Some(BugwatchHandler(level, capture_breadcrumbs, breadcrumb_level))
    /\ UNCHANGED <<clientVars, hookVars, threadVars, transportVars, fingerprintVars,
                   log_call>>

\* What becomes of a record logged on a logger that has the handler: the
\* logger passes it on when record.levelno >= handler.level, and emit() takes
\* one of its branches.
Route(h, record) ==
    IF record.levelno < h.level THEN "filtered"
    ELSE IF record.levelno < h.event_level
      THEN IF h.capture_breadcrumbs /\ record.levelno >= h.breadcrumb_level
             THEN "add_breadcrumb" ELSE "ignored"
    ELSE IF record.exc_info THEN "capture_exception"
    ELSE "capture_message"

\* The level of the record that HttpTransport.send logs on the "bugwatch"
\* logger about its outcome, 0 when it logs none (options.debug is off).
SendLogs(outcome) ==
    IF outcome.kind # "response" THEN 40
    ELSE IF UrlopenRaises(outcome.status) THEN 40
    ELSE IF outcome.status \in {200, 201, 202} THEN 0
    ELSE 30

DeliveredOutcomes == {o \in NetOutcomes : HttpTransport_send(o).returned = Some(TRUE)}
FailedOutcomes == NetOutcomes \ DeliveredOutcomes

LogRecord(logger, levelno, exc_info) ==
    [logger |-> logger, levelno |-> levelno, exc_info |-> exc_info, state |-> "new"]

\* The application logs a record: logging.getLogger("myapp").log(levelno, ...),
\* with or without exc_info.
AppLogs ==
    /\ handler # None
    /\ log_call.stack = <<>>
    /\ captures + adds < MaxLogs
    /\ next_id < MaxLogs
    /\ \E levelno \in LogLevels, exc_info \in BOOLEAN :
          log_call' = [NoLogCall EXCEPT
                          !.stack = <<LogRecord("myapp", levelno, exc_info)>>,
                          !.levelno = levelno, !.exc_info = exc_info]
    /\ UNCHANGED <<clientVars, hookVars, threadVars, transportVars, fingerprintVars,
                   handler>>

\* bugwatch.add_breadcrumb: nothing without a global client
module_add_breadcrumb(h, ref, crumb) ==
    IF _client = "None" THEN [heap |-> h, ref |-> ref] ELSE add_breadcrumb(h, ref, crumb)

\* The record being handled, innermost in the nesting, and the nesting with
\* that record finished
Top == log_call.stack[Len(log_call.stack)]
Finished == [log_call.stack EXCEPT ![Len(log_call.stack)].state = "done"]

\* emit(): the tags and extra context built from the record
LogTags(record) ==
    ("logger.name" :> record.logger) @@ ("logger.level" :> LevelName(record.levelno))
LogExtra(record) == "logger" :> record.logger

\* emit(): the capture call for a record at or above the event level
EmitCapture(record) ==
    IF record.exc_info
      THEN module_capture_exception(Some(CHOOSE f \in Faults : ~f.str_raises),
                                    _get_bugwatch_level(record.levelno),
                                    LogTags(record), LogExtra(record), None, 0, TRUE)
      ELSE module_capture_message("boom", _get_bugwatch_level(record.levelno),
                                  LogTags(record), LogExtra(record), 0, TRUE)

\* The level of the record the transport logs inside capture call r, 0 when
\* the call sent nothing or the send logged nothing
LoggedBySend(r, outcome) == IF r.nsend = 1 THEN SendLogs(outcome) ELSE 0

\* emit() capturing the record: the client's HttpTransport posts the event
\* with `outcome`. What the transport logs about it is a record of its own,
\* handled inside this call, unless MaxNesting calls are already nested
\* (RecursionError, swallowed by the except clauses on the way out).
HandleCapture(route, r, logs, outcome) ==
    /\ Captured(route, _get_bugwatch_level(Top.levelno), r, 0)
    /\ wire' = IF r.nsend = 1
                 THEN [transport |-> "HttpTransport",
                       outcome |-> Some(outcome),
                       returned |-> HttpTransport_send(outcome).returned,
                       completed |-> TRUE,
                       path |-> HttpSendPath(outcome).path,
                       requests |-> HttpSendPath(outcome).requests]
                 ELSE wire
    /\ log_call' =
          [log_call EXCEPT
              !.stack = IF logs # 0 /\ Len(log_call.stack) < MaxNesting
                          THEN Append(Finished, LogRecord("bugwatch", logs, FALSE))
                          ELSE Finished,
              !.emitted = @ + 1,
              ![route] = @ + 1,
              !.sends = @ + r.nsend,
              !.recursion_errors =
                  @ + (IF logs # 0 /\ Len(log_call.stack) >= MaxNesting THEN 1 ELSE 0)]

\* emit() for a record below the event level: _add_breadcrumb
HandleBreadcrumb(r) ==
    /\ heap' = r.heap
    /\ _breadcrumbs' = r.ref
    /\ adds' = IF _client = "None" THEN adds ELSE adds + 1
    /\ adds_since_clear' = IF _client = "None" THEN adds_since_clear
                           ELSE adds_since_clear + 1
    /\ last' = [NoCall EXCEPT !.op = "add_breadcrumb"]
    /\ log_call' = [log_call EXCEPT !.stack = Finished, !.emitted = @ + 1,
                                    !.add_breadcrumb = @ + 1]
    /\ UNCHANGED <<options, _tags, _extra, sent, next_id, clears, captures, wire>>

\* A record the logger does not pass to the handler, or emit() returns on
HandleNothing(route) ==
    /\ log_call' = [log_call EXCEPT
                       !.stack = Finished,
                       !.emitted = @ + (IF route = "ignored" THEN 1 ELSE 0)]
    /\ UNCHANGED <<clientVars, wire>>

HandleRoute(route, outcomes) ==
    IF route \in {"capture_exception", "capture_message"}
      THEN \E outcome \in outcomes :
              HandleCapture(route, EmitCapture(Top),
                            LoggedBySend(EmitCapture(Top), outcome), outcome)
    ELSE IF route = "add_breadcrumb"
      THEN HandleBreadcrumb(
               module_add_breadcrumb(
                   heap, _breadcrumbs,
                   [Breadcrumb("logging", "boom") EXCEPT
                       !.level = _get_bugwatch_level(Top.levelno)]))
    ELSE HandleNothing(route)

\* The innermost record being handled goes through the logger's level test
\* and BugwatchHandler.emit, with the transport's outcome among `outcomes`.
Handle(outcomes) ==
    /\ log_call.stack # <<>>
    /\ Top.state = "new"
    /\ HandleRoute(Route(handler[1], Top), outcomes)
    /\ UNCHANGED <<hookVars, threadVars, fingerprintVars, handler>>

\* The innermost handling returns to the call that logged the record.
Return ==
    /\ log_call.stack # <<>>
    /\ log_call.stack[Len(log_call.stack)].state = "done"
    /\ log_call' = [log_call EXCEPT !.stack = SubSeq(@, 1, Len(@) - 1)]
    /\ UNCHANGED <<clientVars, hookVars, threadVars, transportVars, fingerprintVars,
                   handler>>

NoInstall == {<<FALSE, FALSE, FALSE>>}

\* Records logged through the handler by an application whose events are
\* delivered: nothing is logged by the transport.
NextLogging ==
    \/ InitCall(NoInstall, PlainOptions)
    \/ SetupLogging
    \/ AppLogs
    \/ Handle(DeliveredOutcomes)
    \/ Return

SpecLogging == InitHook /\ [][NextLogging]_vars

\* The same with an HttpTransport whose sends fail.
NextFeedback ==
    \/ InitCall(NoInstall, PlainOptions)
    \/ SetupLogging
    \/ AppLogs
    \/ Handle(FailedOutcomes)
    \/ Return

SpecFeedback == InitHook /\ [][NextFeedback]_vars

\* --------------------------------- module-level functions against close()
\* The module-level functions of one shape: `if _client is None: return ...`
\* and then `_client.<method>(...)`, two reads of the global.
ModuleFunctions == {"capture_exception", "capture_message", "add_breadcrumb", "set_tag"}

\* Thread t calls a module-level function and evaluates `_client is None`:
\* the not-initialized result, or on to the method call.
ModuleTest(t) ==
    /\ pc[t] = "idle"
    /\ captures < MaxCaptures
    /\ adds < MaxAdds
    /\ next_id < MaxCaptures
    /\ \E fn \in ModuleFunctions :
          IF _client = "None"
            THEN /\ last' = [NoCall EXCEPT !.op = fn, !.trace = <<"no_client">>]
                 /\ UNCHANGED pc
            ELSE /\ Goto(t, fn)
                 /\ UNCHANGED last
    /\ UNCHANGED <<options, heap, _tags, _extra, _breadcrumbs, sent, next_id, adds,
                   adds_since_clear, clears, captures, loc, hookVars, transportVars,
                   fingerprintVars, loggingVars>>

\* `_client.<method>(...)` with _client None: AttributeError leaves the call
ModuleRaises(fn) ==
    /\ last' = [NoCall EXCEPT !.op = fn, !.result = None, !.trace = <<"AttributeError">>]
    /\ UNCHANGED <<options, heap, _tags, _extra, _breadcrumbs, sent, next_id, adds,
                   adds_since_clear, clears, captures>>

\* The client's method called by the module-level function fn
ClientCall(fn) ==
    IF fn = "capture_message"
      THEN Captured(fn, "info",
                    capture_message("test", "info", EmptyDict, EmptyDict, 0, TRUE), 0)
    ELSE IF fn = "capture_exception"
      THEN Captured(fn, "error",
                    capture_exception(Some(CHOOSE f \in Faults : ~f.str_raises), "error",
                                      EmptyDict, EmptyDict, None, 0, TRUE), 0)
    ELSE IF fn = "add_breadcrumb"
      THEN /\ heap' = add_breadcrumb(heap, _breadcrumbs, Breadcrumb("test", adds + 1)).heap
           /\ _breadcrumbs' =
                 add_breadcrumb(heap, _breadcrumbs, Breadcrumb("test", adds + 1)).ref
           /\ adds' = adds + 1
           /\ adds_since_clear' = adds_since_clear + 1
           /\ last' = [NoCall EXCEPT !.op = fn]
           /\ UNCHANGED <<options, _tags, _extra, sent, next_id, clears, captures>>
    ELSE /\ heap' = [heap EXCEPT ![_tags] = DictSet(@, "k", "client")]
         /\ last' = [NoCall EXCEPT !.op = fn]
         /\ UNCHANGED <<options, _tags, _extra, _breadcrumbs, sent, next_id,
                        adds, adds_since_clear, clears, captures>>

\* Thread t evaluates `_client` again and calls the method on what it finds.
ModuleInvoke(t) ==
    /\ pc[t] \in ModuleFunctions
    /\ IF _client = "None" THEN ModuleRaises(pc[t]) ELSE ClientCall(pc[t])
    /\ Goto(t, "idle")
    /\ UNCHANGED <<loc, hookVars, transportVars, fingerprintVars, loggingVars>>

\* Threads in module-level functions while init() and close() run.
NextRace ==
    \/ InitCall(NoInstall, PlainOptions)
    \/ CloseCall
    \/ \E t \in Threads : ModuleTest(t) \/ ModuleInvoke(t)

SpecRace == InitHook /\ [][NextRace]_vars

\* ------------------------------------------------------ frame locals
\* Faults whose frames have local variables: an in-app frame with a public, a
\* private and a framework name, a library frame with a public name, an
\* in-app frame with private names only, and a frame of exec'd code.
Bindings == ("x" :> 1) @@ ("_tmp" :> 2) @@ ("self" :> 3)
FramesWithLocals ==
    { [AppFrame EXCEPT !.f_locals = Bindings],
      [LibFrame EXCEPT !.f_locals = "n" :> 4],
      [AppFrame EXCEPT !.function = "helper", !.f_locals = "_tmp" :> 2],
      [filename |-> <<"<string>">>, function |-> "<module>", lineno |-> 1,
       f_locals |-> "y" :> 5] }
FaultsWithLocals ==
    { [type |-> "ValueError", value |-> "", str_raises |-> FALSE, tb |-> <<a, b>>] :
          a, b \in FramesWithLocals }

InitLocals ==
    InitClient({[o EXCEPT !.capture_locals = c] :
                   o \in Options({MaxCap}, {Scale}, {"None"}), c \in BOOLEAN})

NextLocals ==
    \/ SetTag
    \/ CaptureException(FaultsWithLocals, {EmptyDict}, {TRUE})

SpecLocals == InitLocals /\ [][NextLocals]_vars

CaptureOps == {"capture_exception", "capture_message"}
WorkSteps == {"extract", "create_event", "fingerprint", "before_send", "send"}
Steps(trace) == {trace[i] : i \in 1..Len(trace)}
\* the most recent call drew a random number above the sample rate
Rejected ==
    /\ last.op \in CaptureOps
    /\ "random" \in Steps(last.trace)
    /\ options.sample_rate < Scale
    /\ last.draw > options.sample_rate

\* C1: a fault passed to Bugwatch's sys.excepthook while a global client
\* exists causes exactly one capture_exception call, with level FATAL (one
\* event handed to the transport unless the call is sampled out, dropped or
\* fails inside), and only after it the handler that sys.excepthook held
\* before the install is called, once, with the same fault, also when the
\* capture raised or built no event.
Delivers ==
    /\ ~Rejected
    /\ options.before_send \notin {"drop", "raise"}
    /\ ~hook_call.fault[1].str_raises
C1_CaptureThenChain ==
    (hook_call.via = BugwatchExcepthook /\ hook_call.client = "BugwatchClient") =>
        /\ hook_pc = "capture" => hook_call.capture_calls = 0 /\ hook_call.chained = <<>>
        /\ hook_pc = "chain" =>
              /\ hook_call.capture_calls = 1
              /\ hook_call.chained = <<>>
              /\ last.op = "capture_exception"
              /\ last.level = "fatal"
              /\ Len(sent) = last.sent_before + (IF Delivers THEN 1 ELSE 0)
              /\ Delivers =>
                    /\ sent[Len(sent)].level = "fatal"
                    /\ sent[Len(sent)].exception[1].type = hook_call.fault[1].type
        /\ hook_pc = "idle" =>
              /\ hook_call.capture_calls = 1
              /\ hook_call.chained = <<[handler |-> hook_call.previous,
                                        fault |-> hook_call.fault[1]]>>
              /\ hook_call.previous \in {"sys.__excepthook__"} \cup AppHandlers
C1_Witness ==
    /\ hook_call.via = BugwatchExcepthook
    /\ hook_call.client = "BugwatchClient"
    /\ hook_pc = "idle"
    /\ last.op = "capture_exception"
    /\ last.result = None
    /\ Len(hook_call.chained) = 1
C1_WitnessSent ==
    /\ hook_call.via = BugwatchExcepthook
    /\ hook_call.client = "BugwatchClient"
    /\ hook_pc = "idle"
    /\ last.nsend = 1
    /\ sent[Len(sent)].level = "fatal"
    /\ hook_call.chained[1].handler = "app_hook"

\* C2: capture_exception and capture_message never propagate an exception to
\* their caller: every call returns a value (the empty string when a step
\* inside it raised).
C2_NeverPropagates == last.op \in CaptureOps => last.result # None

\* C3: with max_breadcrumbs = N >= 1, after more than N add_breadcrumb calls
\* the trail holds exactly the N most recently appended breadcrumbs in their
\* order, and so does the breadcrumb list of the event built next.
MostRecent(n, cap) == [i \in 1..cap |-> Breadcrumb("test", n - cap + i)]
C3_KeepsMostRecent ==
    (options.max_breadcrumbs >= 1 /\ adds_since_clear > options.max_breadcrumbs) =>
        /\ heap[_breadcrumbs] = MostRecent(adds, options.max_breadcrumbs)
        /\ (last.op \in CaptureOps /\ last.event # None) =>
              heap[last.event[1].breadcrumbs] = MostRecent(adds, options.max_breadcrumbs)
C3_Witness ==
    /\ options.max_breadcrumbs = 2
    /\ adds_since_clear = 3
    /\ last.op = "capture_message"
    /\ last.nsend = 1
    /\ Len(heap[sent[Len(sent)].breadcrumbs]) = 2

\* C4: for every capacity max_breadcrumbs >= 0, zero included, the trail
\* holds at most max_breadcrumbs breadcrumbs after each call.
C4_TrailWithinCapacity == Len(heap[_breadcrumbs]) <= options.max_breadcrumbs

\* C5: an event is never built from a trail that is between an append and
\* its truncation, so no event's breadcrumb list is longer than
\* max_breadcrumbs, also when add_breadcrumb and capture_* run on different
\* threads.
C5_EventsWithinCapacity ==
    \A i \in 1..Len(sent) : Len(heap[sent[i].breadcrumbs]) <= options.max_breadcrumbs

\* C6: when before_send returns None, the capture call returns the empty
\* string and transport.send is not called for it.
C6_DropSendsNothing ==
    (last.op \in CaptureOps /\ last.hook = "returned_none") =>
        /\ last.result = Some("")
        /\ last.nsend = 0
        /\ Len(sent) = last.sent_before
C6_Witness ==
    /\ last.op = "capture_exception"
    /\ last.hook = "returned_none"
    /\ last.event # None
    /\ captures = 2

\* C7: with sample_rate = 0.0 no capture_message call hands an event to the
\* transport, whatever the random draw in [0, 1).
C7_RateZeroSendsNothing ==
    (options.sample_rate = 0 /\ last.op = "capture_message") =>
        /\ last.nsend = 0
        /\ Len(sent) = last.sent_before

\* C8: a capture call rejected by sampling returns the empty string without
\* extraction, event building, hook invocation or send; in every call the
\* random draw, when one is made, precedes all of those steps.
C8_SamplingFirst ==
    /\ Rejected =>
          /\ last.result = Some("")
          /\ Steps(last.trace) \cap WorkSteps = {}
          /\ last.event = None
          /\ last.hook = "not_called"
          /\ Len(sent) = last.sent_before
    /\ (last.op \in CaptureOps /\ options.sample_rate < Scale) =>
          \A i \in 1..Len(last.trace) :
              last.trace[i] \in WorkSteps =>
                  \E j \in 1..(i - 1) : last.trace[j] = "random"
C8_Witness ==
    /\ Rejected
    /\ last.op = "capture_exception"
    /\ options.before_send = "mutate"
    /\ last.trace = <<"exc_info", "random">>

\* C9: every event handed to the transport has a non-empty message or a
\* non-null exception.
C9_MessageOrException ==
    \A i \in 1..Len(sent) : sent[i].message # "" \/ sent[i].exception # None

\* C10: a capture call leaves the client's own tag and extra maps with the
\* keys and values they had before the call, also when per-call tags/extra
\* are merged in and when before_send edits the event's maps.
C10_ClientMapsUnchanged ==
    last.op \in CaptureOps =>
        /\ heap[_tags] = last.tags_before
        /\ heap[_extra] = last.extra_before
C10_Witness ==
    /\ last.op = "capture_message"
    /\ last.hook = "returned_event"
    /\ last.nsend = 1
    /\ "k" \in DOMAIN heap[_tags]
    /\ heap[_tags]["k"] = "client"
    /\ heap[sent[Len(sent)].tags]["k"] = "call"
    /\ heap[sent[Len(sent)].tags]["runtime"] = "hooked"
    /\ heap[sent[Len(sent)].extra]["modified"] = "true"
    /\ heap[_tags]["runtime"] = "python"

\* C11: the breadcrumb list of an event already built is a copy of its own:
\* no later call on the client (add_breadcrumb, with or without eviction,
\* clear_breadcrumbs, another capture) changes the breadcrumb list of an
\* event handed to the transport before.
EventCrumbs(h, s) == [i \in 1..Len(s) |-> h[s[i].breadcrumbs]]
C11_EventTrailIndependent ==
    [][SubSeq(EventCrumbs(heap', sent'), 1, Len(sent)) = EventCrumbs(heap, sent)]_vars
C11_Witness ==
    /\ options.max_breadcrumbs = 1
    /\ Len(sent) = 1
    /\ heap[sent[1].breadcrumbs] = <<Breadcrumb("test", 1)>>
    /\ heap[_breadcrumbs] = <<Breadcrumb("test", 2)>>
    /\ last.op = "add_breadcrumb"
    /\ clears = 0

\* C12: in every event the breadcrumbs are in the order of their
\* add_breadcrumb calls: of two breadcrumbs in one event the one recorded
\* first comes first.
Chronological(list) ==
    \A a, b \in 1..Len(list) : a < b => list[a].message < list[b].message
C12_EventTrailChronological ==
    \A i \in 1..Len(sent) : Chronological(heap[sent[i].breadcrumbs])
C12_Witness ==
    /\ Len(sent) = 2
    /\ heap[sent[1].breadcrumbs] = <<Breadcrumb("test", 1), Breadcrumb("test", 2)>>
    /\ heap[sent[2].breadcrumbs] = <<Breadcrumb("test", 2), Breadcrumb("test", 3)>>

\* C19: whatever the network call comes to (a non-success status, an HTTP
\* error, a connection error, a timeout, a serialization failure),
\* HttpTransport.send raises nothing and returns False, and the capture call
\* that sent the event returns the event's id.
Delivered(outcome) == outcome.kind = "response" /\ outcome.status \in {200, 201, 202}
C19_HttpSendNeverRaises ==
    wire.transport = "HttpTransport" =>
        /\ wire.returned # None
        /\ ~Delivered(wire.outcome[1]) => wire.returned = Some(FALSE)
        /\ last.op \in CaptureOps
        /\ last.nsend = 1
        /\ last.result = Some(sent[Len(sent)].event_id)
C19_Witness ==
    /\ wire.transport = "HttpTransport"
    /\ wire.outcome[1].kind = "timeout"
    /\ wire.returned = Some(FALSE)
    /\ last.op = "capture_exception"
    /\ last.result = Some(Uuid(2))

\* C20: for the synchronous and the asynchronous HTTP transport alike, a
\* send whose request has completed with a response reports True exactly
\* when the status is 200, 201 or 202.
C20_DeliveredIffAccepted ==
    (wire.transport \in {"HttpTransport", "AsyncHttpTransport"}
        /\ wire.completed /\ wire.outcome[1].kind = "response") =>
        (wire.returned = Some(TRUE) <=> wire.outcome[1].status \in {200, 201, 202})

\* C21: HttpTransport.send returns True exactly for a response whose status
\* is in 200..299, and False for every other status and for every failure
\* below HTTP.
C21_Http2xxDelivered ==
    (wire.transport = "HttpTransport" /\ wire.outcome # None) =>
        (wire.returned = Some(TRUE) <=>
            (wire.outcome[1].kind = "response"
                /\ wire.outcome[1].status \in 200..299))

\* C22: one capture call makes at most one transport.send call; that
\* HttpTransport.send call goes Idle, Sending, then once to Delivered or
\* Failed, with at most one urlopen call, and nothing follows Failed.
C22_OneSendNoRetry ==
    /\ last.nsend \in {0, 1}
    /\ wire.transport = "HttpTransport" =>
          /\ wire.path \in {<<"Idle", "Sending", "Delivered">>,
                            <<"Idle", "Sending", "Failed">>}
          /\ wire.requests \in {0, 1}
          /\ (wire.path[3] = "Delivered" <=> wire.returned = Some(TRUE))
          /\ wire.path[3] = "Delivered" => wire.requests = 1
          /\ Len(sent) <= captures
C22_Witness ==
    /\ wire.transport = "HttpTransport"
    /\ wire.outcome[1] = [kind |-> "response", status |-> 500]
    /\ wire.path = <<"Idle", "Sending", "Failed">>
    /\ wire.requests = 1
    /\ last.op = "capture_message"
    /\ last.nsend = 1
    /\ Len(sent) = 1

\* C23: AsyncHttpTransport.send called inside a running event loop returns
\* True with the request not yet made, whatever the request comes to
\* later; called without a running loop it returns after the request, True
\* exactly when send_async delivered.
C23_AsyncSendOptimistic ==
    wire.transport = "AsyncHttpTransport" =>
        /\ loop_running =>
              /\ wire.returned = Some(TRUE)
              /\ ~wire.completed
              /\ wire.requests = 0
        /\ ~loop_running =>
              /\ wire.completed
              /\ wire.returned # None
              /\ (wire.returned = Some(TRUE) <=> wire.path[Len(wire.path)] = "Delivered")
              /\ (wire.returned = Some(TRUE) =>
                    (wire.outcome[1].kind = "response"
                        /\ wire.outcome[1].status \in 200..299))
C23_Witness ==
    /\ wire.transport = "AsyncHttpTransport"
    /\ loop_running
    /\ wire.outcome[1].kind = "timeout"
    /\ wire.returned = Some(TRUE)
    /\ ~wire.completed
C23_WitnessNoLoop ==
    /\ wire.transport = "AsyncHttpTransport"
    /\ ~loop_running
    /\ wire.outcome[1].kind = "timeout"
    /\ wire.returned = Some(FALSE)
    /\ wire.completed

\* C24: over any sequence of init() and close() calls in one process,
\* atexit.register(_atexit_handler) has been called at most once.
C24_AtexitOnce == atexit_handlers <= 1

\* No _install_* function has replaced a handler so far: nothing is saved
\* for sys or threading (a saved one is never None and is never cleared),
\* and the loop's handler is not Bugwatch's.
NeverInstalled ==
    /\ _original_excepthook = "None"
    /\ _original_threading_excepthook = "None"
    /\ loop_handler # BugwatchAsyncioHandler

\* C25 (as stated): a close() while no interceptor has ever been installed
\* leaves sys.excepthook, threading.excepthook and the global client as
\* they were.
C25_CloseChangesNothing ==
    [][(last'.op = "close" /\ NeverInstalled) =>
          /\ sys_excepthook' = sys_excepthook
          /\ threading_excepthook' = threading_excepthook
          /\ _client' = _client]_vars

\* C25 (amended): a close() while no interceptor has ever been installed
\* leaves sys.excepthook, threading.excepthook and the loop's handler as
\* they were and leaves no global client; when there was no global client
\* either, nothing but the cleared installed mark differs.
C25_CloseWithoutInstall ==
    [][(last'.op = "close" /\ NeverInstalled) =>
          /\ sys_excepthook' = sys_excepthook
          /\ threading_excepthook' = threading_excepthook
          /\ loop_handler' = loop_handler
          /\ _client' = "None"
          /\ _client = "None" =>
                Globals' = [Globals EXCEPT !._hooks_installed = FALSE]]_vars
C25_Witness ==
    /\ last.op = "close"
    /\ NeverInstalled
    /\ atexit_handlers = 1
    /\ _client = "None"
    /\ sys_excepthook = "sys.__excepthook__"
    /\ threading_excepthook = "threading.__excepthook__"

\* The triple the fingerprint is made of: type, normalized message, and the
\* frames its digest is taken from.
TripleOf(event) ==
    <<event.exception[1].type,
      _normalize_message(Chars(event.exception[1].value)),
      [i \in 1..Len(event.exception[1].stacktrace) |->
          [filename |-> event.exception[1].stacktrace[i].filename,
           function |-> event.exception[1].stacktrace[i].function,
           lineno |-> event.exception[1].stacktrace[i].lineno,
           in_app |-> event.exception[1].stacktrace[i].in_app]]>>

\* C26: any two events built from exceptions with the same type,
\* normalized message and stack frames carry the same fingerprint, whatever
\* their event ids, levels, tags and extra data and whatever the client
\* did between them.
C26_FingerprintDeterministic ==
    \A i, j \in 1..Len(sent) :
        (sent[i].exception # None /\ sent[j].exception # None
            /\ TripleOf(sent[i]) = TripleOf(sent[j])) =>
            /\ sent[i].fingerprint # None
            /\ sent[i].fingerprint = sent[j].fingerprint
C26_Witness ==
    /\ Len(sent) = 2
    /\ sent[1].exception # None
    /\ sent[2].exception # None
    /\ sent[1].event_id # sent[2].event_id
    /\ heap[sent[1].tags] # heap[sent[2].tags]
    /\ sent[1].fingerprint = sent[2].fingerprint
    /\ sent[1].fingerprint = Some("IndexError:list index <number> out of range:app/views.py:view:7")

\* C27: with the same type and stacktrace argument, two messages that
\* differ only in a run of digits, only in a UUID, or only in what stands
\* between a pair of quotes have the same fingerprint.
SameButMessage == fp.a[1].type = fp.b[1].type /\ fp.a[1].stacktrace = fp.b[1].stacktrace
C27_DigitsSame == (fp.op = "digits" /\ SameButMessage) => fp.fa = fp.fb
C27_UuidsSame == (fp.op = "uuid" /\ SameButMessage) => fp.fa = fp.fb
C27_QuotedSame == (fp.op = "quoted" /\ SameButMessage) => fp.fa = fp.fb
C27_VariablePartsIgnored == C27_DigitsSame /\ C27_UuidsSame /\ C27_QuotedSame

\* The stack digest as the claim words it: the first TopFrames frames among
\* those whose in_app flag is set, each file:function:line, joined by "|";
\* absent when there is none.
RECURSIVE JoinFrames(_)
JoinFrames(frames) ==
    IF Len(frames) = 0 THEN ""
    ELSE frames[1].filename \o ":" \o frames[1].function \o ":"
            \o ToString(frames[1].lineno)
            \o (IF Len(frames) = 1 THEN "" ELSE "|" \o JoinFrames(Tail(frames)))
InAppFrames(frames) == SelectSeq(frames, LAMBDA f : f.in_app)
FirstInApp(frames) ==
    SubSeq(InAppFrames(frames), 1, Min(TopFrames, Len(InAppFrames(frames))))
InAppDigest(frames) ==
    IF FirstInApp(frames) = <<>> THEN None ELSE Some(JoinFrames(FirstInApp(frames)))

\* C28: fingerprint_from_exception hashes the type, the message and the
\* digest of the first five in-app frames, so two stacks with the same
\* in-app frames give the same fingerprint whatever library frames stand
\* among them.
C28_InAppFramesOnly ==
    fp.op = "frames" =>
        /\ fp.fa = Some(generate_fingerprint(fp.a[1].type, fp.a[1].message,
                                             InAppDigest(fp.a[1].frames)))
        /\ (InAppFrames(fp.a[1].frames) = InAppFrames(fp.b[1].frames)
                /\ fp.a[1].type = fp.b[1].type) => fp.fa = fp.fb

\* C29: with the same type and message, generate_fingerprint given a
\* stacktrace string, the empty one included, returns another value than
\* given None.
C29_DigestChangesFingerprint ==
    (fp.op = "digest" /\ fp.a[1].stacktrace = None /\ fp.b[1].stacktrace # None) =>
        fp.fa # fp.fb

\* C30: the event captured for a fault in a worker thread has the thread's
\* name under the tag thread.name, and the event captured for a fault in a
\* task of the event loop has the loop's text for the task under the tag
\* asyncio.task.
EventTags == heap[last.event[1].tags]
JustCaptured(pcs) ==
    hook_pc \in pcs /\ hook_call.capture_calls = 1 /\ last.event # None
C30_ThreadTagged ==
    (JustCaptured({"thread_chain"}) /\ hook_call.origin # None) =>
        /\ "thread.name" \in DOMAIN EventTags
        /\ EventTags["thread.name"] = hook_call.origin[1]
C30_TaskTagged ==
    JustCaptured({"task_chain"}) =>
        /\ "asyncio.task" \in DOMAIN EventTags
        /\ EventTags["asyncio.task"] = hook_call.origin[1]
C30_OriginTagged == C30_ThreadTagged /\ C30_TaskTagged

\* C13: over any sequence of init() and close() calls no saved original
\* handler is one of Bugwatch's own handlers, and a fault that reaches
\* Bugwatch's sys.excepthook, however many times init() ran before, gives
\* one capture call, one event and one call of the original handler.
NoChainCycle ==
    /\ _original_excepthook # BugwatchExcepthook
    /\ _original_threading_excepthook # BugwatchThreadingHook
    /\ _original_asyncio_handler # BugwatchAsyncioHandler
C13_InstallIdempotent ==
    /\ NoChainCycle
    /\ (hook_call.via = BugwatchExcepthook /\ hook_call.client = "BugwatchClient") =>
          /\ hook_pc = "chain" =>
                /\ hook_call.capture_calls = 1
                /\ last.nsend = (IF hook_call.fault[1].str_raises THEN 0 ELSE 1)
                /\ Len(sent) = last.sent_before + last.nsend
          /\ hook_pc = "idle" =>
                /\ hook_call.capture_calls = 1
                /\ Len(hook_call.chained) = 1
                /\ hook_call.chained[1].handler = "sys.__excepthook__"
C13_Witness ==
    /\ atexit_handlers = 2
    /\ loop_handler = BugwatchAsyncioHandler
    /\ hook_call.via = BugwatchExcepthook
    /\ hook_call.client = "BugwatchClient"
    /\ hook_pc = "idle"
    /\ hook_call.capture_calls = 1
    /\ Len(hook_call.chained) = 1
    /\ Len(sent) = 1

\* C14: close() right after an init() that returned puts back, for every
\* handler that init() replaced (sys.excepthook, threading.excepthook, the
\* event loop's exception handler), the handler registered before that
\* init().
Restored(now, after_init, before_init) == after_init # before_init => now = before_init
C14_CloseRestores ==
    [][(last'.op = "close" /\ last.op = "init" /\ last.result # None) =>
          /\ Restored(sys_excepthook', sys_excepthook, last.before[1].sys_excepthook)
          /\ Restored(threading_excepthook', threading_excepthook,
                      last.before[1].threading_excepthook)
          /\ Restored(loop_handler', loop_handler, last.before[1].loop_handler)]_vars

\* C15: when an init() call with install_excepthook and
\* install_threading_hook true has returned, sys.excepthook and
\* threading.excepthook are Bugwatch's handlers, whatever init() and close()
\* calls came before.
C15_DefaultInitInstalls ==
    (last.op = "init" /\ last.result # None /\ last.flags[1] /\ last.flags[2]) =>
        /\ sys_excepthook = BugwatchExcepthook
        /\ threading_excepthook = BugwatchThreadingHook

\* C16: after an init() with install_asyncio_hook true, a fault in a task
\* of the event loop is passed to the client's capture_exception, and then
\* to the default handling, whether the loop was running when init() was
\* called or started later.
TaskRoutes == {BugwatchAsyncioHandler, DefaultExceptionHandler}
C16_TaskFaultsCaptured ==
    (hook_call.via \in TaskRoutes /\ hook_call.requested
        /\ hook_call.client = "BugwatchClient" /\ hook_pc = "idle") =>
        /\ hook_call.capture_calls = 1
        /\ Len(hook_call.chained) = 1

\* C17: while there is no global client, get_client() returns None and the
\* module-level capture_exception and capture_message return the empty
\* string and send nothing; close() always leaves the process without a
\* global client.
C17_NoClientNoCapture ==
    /\ last.op = "close" => _client = "None"
    /\ _client = "None" =>
          /\ last.op = "get_client" => last.result = Some("None")
          /\ last.op \in CaptureOps =>
                /\ last.result = Some("")
                /\ last.nsend = 0
                /\ last.event = None
                /\ Len(sent) = last.sent_before
C17_Witness ==
    /\ _client = "None"
    /\ atexit_handlers = 1
    /\ last.op = "capture_message"
    /\ last.trace = <<"no_client">>
    /\ Len(sent) = 1

\* C18: init() without an api_key argument and without BUGWATCH_API_KEY
\* raises ValueError and leaves the global client, every handler, every
\* saved original, the installed mark and the atexit registrations as they
\* were.
C18_InitWithoutKeyChangesNothing ==
    [][(last'.op = "init" /\ last'.result = None) => Globals' = Globals]_vars
C18_Witness ==
    /\ last.op = "init"
    /\ last.result = None
    /\ _client = "BugwatchClient"
    /\ sys_excepthook = BugwatchExcepthook
    /\ atexit_handlers = 1

\* C31: when before_send returns an event, the object handed to
\* transport.send is that returned event (a tag the hook set is in the
\* delivered event), before_send runs exactly once in the call and before the
\* send, and the call returns the event_id of the delivered event.
Count(trace, step) == Cardinality({i \in 1..Len(trace) : trace[i] = step})
Before(trace, a, b) ==
    \A j \in 1..Len(trace) : trace[j] = b => \E i \in 1..(j - 1) : trace[i] = a
C31_ReturnedEventDelivered ==
    /\ (last.op \in CaptureOps /\ last.hook = "returned_event") =>
          /\ last.returned # None
          /\ last.nsend = 1
          /\ Len(sent) = last.sent_before + 1
          /\ sent[Len(sent)] = last.returned[1]
          /\ "modified" \in DOMAIN heap[sent[Len(sent)].tags]
          /\ heap[sent[Len(sent)].tags]["modified"] = "true"
          /\ Count(last.trace, "before_send") = 1
          /\ Count(last.trace, "send") = 1
          /\ Before(last.trace, "before_send", "send")
          /\ last.result # None => last.result = Some(last.returned[1].event_id)
    /\ (last.op \in CaptureOps /\ options.before_send # "None") =>
          Count(last.trace, "before_send") = (IF last.event # None THEN 1 ELSE 0)
C31_Witness ==
    /\ last.op = "capture_exception"
    /\ options.before_send = "replace"
    /\ last.hook = "returned_event"
    /\ captures = 2
    /\ last.result = Some("hook-id2")
    /\ sent[Len(sent)].event_id = "hook-id2"
    /\ "modified" \notin DOMAIN heap[_tags]

\* C32: capture_exception called without a fault argument captures the fault
\* being handled in the caller's context; when none is being handled it
\* returns the empty string with no sampling draw, no extraction, no hook
\* invocation and no send.
C32_NoArgumentUsesHandled ==
    (last.op = "capture_exception" /\ last.error = None) =>
        /\ last.exc_info = None =>
              /\ last.result = Some("")
              /\ last.trace = <<"exc_info">>
              /\ last.event = None
              /\ last.hook = "not_called"
              /\ last.nsend = 0
              /\ Len(sent) = last.sent_before
        /\ last.exc_info # None =>
              /\ last.trace[1] = "exc_info"
              /\ (~Rejected /\ ~last.exc_info[1].str_raises) => last.event # None
              /\ last.event # None =>
                    /\ last.event[1].exception # None
                    /\ last.event[1].exception[1].type = last.exc_info[1].type
                    /\ last.event[1].exception[1].value = last.exc_info[1].value
C32_Witness ==
    /\ last.op = "capture_exception"
    /\ last.error = None
    /\ last.exc_info = None
    /\ options.sample_rate = 0
    /\ options.before_send = "mutate"
    /\ captures = 2
    /\ last.result = Some("")
C32_WitnessHandled ==
    /\ last.op = "capture_exception"
    /\ last.error = None
    /\ last.exc_info # None
    /\ last.nsend = 1
    /\ sent[Len(sent)].exception[1].type = "IndexError"

\* C33: a stack frame of an event carries local variables only if
\* capture_locals is on and the frame is in-app; with capture_locals off (the
\* default) no frame of any event carries local variables.
FaultOf(call) == IF call.error = None THEN call.exc_info[1] ELSE call.error[1]
C33_LocalsOnlyInApp ==
    /\ \A i \in 1..Len(sent) :
          sent[i].exception # None =>
              \A k \in 1..Len(sent[i].exception[1].stacktrace) :
                  sent[i].exception[1].stacktrace[k].vars # None =>
                      /\ options.capture_locals
                      /\ sent[i].exception[1].stacktrace[k].in_app
    /\ (last.op = "capture_exception" /\ last.event # None) =>
          \A k \in 1..Len(last.event[1].exception[1].stacktrace) :
              LET built == last.event[1].exception[1].stacktrace[k]
                  frame == FaultOf(last).tb[k]
              IN  /\ built.in_app = _is_in_app(frame.filename)
                  /\ built.vars # None => built.vars[1] = "x" :> 1
C33_Witness ==
    /\ options.capture_locals
    /\ last.op = "capture_exception"
    /\ last.nsend = 1
    /\ sent[Len(sent)].exception[1].stacktrace[1].vars = Some("x" :> 1)
    /\ ~sent[Len(sent)].exception[1].stacktrace[2].in_app
    /\ sent[Len(sent)].exception[1].stacktrace[2].vars = None
    /\ FaultOf(last).tb[2].f_locals = "n" :> 4
C33_WitnessDefault ==
    /\ ~options.capture_locals
    /\ last.nsend = 1
    /\ FaultOf(last).tb[1].f_locals = Bindings
    /\ sent[Len(sent)].exception[1].stacktrace[1].in_app
    /\ sent[Len(sent)].exception[1].stacktrace[1].vars = None

\* C34: for a BugwatchHandler with event level L, a record below L produces no
\* event and becomes a breadcrumb exactly when capture_breadcrumbs is on and
\* its level is at least breadcrumb_level; a record at or above L produces
\* exactly one capture call (capture_exception when it carries exception
\* info, capture_message otherwise) and no breadcrumb.
Handled == handler # None /\ log_call.levelno # 0 /\ log_call.stack = <<>>
C34_BelowLevel ==
    (Handled /\ log_call.levelno < handler[1].event_level) =>
        /\ log_call.capture_exception = 0
        /\ log_call.capture_message = 0
        /\ log_call.sends = 0
        /\ log_call.add_breadcrumb =
              (IF handler[1].capture_breadcrumbs
                    /\ log_call.levelno >= handler[1].breadcrumb_level
                 THEN 1 ELSE 0)
C34_AtOrAboveLevel ==
    (Handled /\ log_call.levelno >= handler[1].event_level) =>
        /\ log_call.capture_exception = (IF log_call.exc_info THEN 1 ELSE 0)
        /\ log_call.capture_message = (IF log_call.exc_info THEN 0 ELSE 1)
        /\ log_call.add_breadcrumb = 0
C34_LoggingBridge == C34_BelowLevel /\ C34_AtOrAboveLevel

\* C36: with the handler on a logger that receives the records of the
\* "bugwatch" logger and an HttpTransport whose sends fail, handling one
\* error-level record sends a bounded number of events: what the transport
\* logs about the failed send is not captured and sent as a new event.
C36_FailureNotCaptured ==
    (handler # None /\ handler[1].event_level = 40 /\ log_call.levelno = 40) =>
        /\ log_call.sends <= 1
        /\ log_call.capture_message + log_call.capture_exception <= 1

\* C35: when two threads call add_breadcrumb concurrently on one client no
\* update is lost: once the calls have returned, the breadcrumb appended most
\* recently is in the trail whenever max_breadcrumbs >= 1.
Quiescent == \A t \in Threads : pc[t] = "idle"
Trail == {heap[_breadcrumbs][i] : i \in 1..Len(heap[_breadcrumbs])}
C35_NoLostBreadcrumb ==
    (Quiescent /\ last.appended # None /\ options.max_breadcrumbs >= 1) =>
        last.appended[1] \in Trail

\* C37: the module-level capture_exception, capture_message, add_breadcrumb
\* and set_* never raise while close() runs on another thread: each call acts
\* on the client or returns its not-initialized result.
C37_ModuleCallsNeverRaise == last.op \in ModuleFunctions => last.result # None

\* C38: close() reverts only handlers that Bugwatch has installed at that
\* time: when sys.excepthook (or threading.excepthook) is not Bugwatch's
\* handler at the time of close(), close() leaves it unchanged, also after
\* earlier init()/close() cycles.
C38_SysHookLeft ==
    [][(last'.op = "close" /\ sys_excepthook # BugwatchExcepthook) =>
          sys_excepthook' = sys_excepthook]_vars
C38_ThreadingHookLeft ==
    [][(last'.op = "close" /\ threading_excepthook # BugwatchThreadingHook) =>
          threading_excepthook' = threading_excepthook]_vars
C38_CloseLeavesForeignHandlers ==
    [][last'.op = "close" =>
          /\ sys_excepthook # BugwatchExcepthook => sys_excepthook' = sys_excepthook
          /\ threading_excepthook # BugwatchThreadingHook =>
                threading_excepthook' = threading_excepthook]_vars
====
